---------------------------- MODULE Spec2Model ----------------------------
(***************************************************************************)
(* Model of the negotiation core of the market simulator:                  *)
(*   - src/negotiation/constraints.py  validate_action                     *)
(*   - src/negotiation/judge.py        ActionJudge                         *)
(*   - src/negotiation/session.py      NegotiationSession                  *)
(*                                                                         *)
(* Money is counted in cents and ranges over the naturals; an absent price *)
(* (Python None) is the value None.  The two agents are the environment:   *)
(* each decide() call may return any action over the bounded price set.    *)
(***************************************************************************)
EXTENDS Integers, Sequences, FiniteSets, TLC

\* ------------------------------------------------------------------ bounds
\* Largest amount (cents) used for prices, values, budgets and costs.
MaxAmount == 3
\* Largest max_rounds a session is constructed with.
MaxRoundsBound == 3

\* ------------------------------------------------------------------ types
None == -1

Min(a, b) == IF a <= b THEN a ELSE b

BUYER == "buyer"
SELLER == "seller"
AgentRole == {BUYER, SELLER}

OFFER == "offer"
COUNTER == "counter"
ACCEPT == "accept"
REJECT == "reject"
ActionType == {OFFER, COUNTER, ACCEPT, REJECT}

ACCEPTED == "accepted"
REJECTED == "rejected"
TIMEOUT == "timeout"
INVALID == "invalid"
TerminationReason == {ACCEPTED, REJECTED, TIMEOUT, INVALID}

Amounts == 0..MaxAmount
OptPrice == Amounts \cup {None}

\* Public messages: whatever the agent said, or one of the two fixed texts.
AGENT_MSG == "agent message"
OPENING_MSG == "Opening offer."
CANNOT_CONTINUE_MSG == "I cannot continue this negotiation."

NegotiationAction(type, price, msg) ==
    [action |-> type, offer_price |-> price, message_public |-> msg]

\* Every action a decide() call can return.
AgentActions ==
    {NegotiationAction(t, p, AGENT_MSG) : t \in ActionType, p \in OptPrice}

BuyerState(value, budget) == [value |-> value, budget |-> budget]
SellerState(cost) == [cost |-> cost]

\* ------------------------------------------------------- validate_action
ValidationResult(valid, reason, violation_type) ==
    [valid |-> valid, reason |-> reason, violation_type |-> violation_type]

Valid == ValidationResult(TRUE, "", "none")

\* Mutant: the budget rule is tried before the global bounds.
validate_offer_budget_first(role, price, buyer, seller, min_price, max_price) ==
    IF price = None
    THEN ValidationResult(FALSE, "offer/counter must include a price", "logic")
    ELSE IF role = BUYER /\ price > buyer.budget
    THEN ValidationResult(FALSE, "offer exceeds budget", "budget")
    ELSE IF role = BUYER /\ price > buyer.value
    THEN ValidationResult(FALSE, "offer exceeds value", "budget")
    ELSE IF price < min_price \/ price > max_price
    THEN ValidationResult(FALSE, "outside bounds", "bounds")
    ELSE IF role = SELLER /\ price < seller.cost
    THEN ValidationResult(FALSE, "offer below cost", "cost")
    ELSE Valid

\* Mutant: the global bounds are exclusive.
validate_offer_exclusive(role, price, buyer, seller, min_price, max_price) ==
    IF price = None
    THEN ValidationResult(FALSE, "offer/counter must include a price", "logic")
    ELSE IF price <= min_price \/ price >= max_price
    THEN ValidationResult(FALSE, "outside bounds", "bounds")
    ELSE IF role = BUYER /\ price > buyer.budget
    THEN ValidationResult(FALSE, "offer exceeds budget", "budget")
    ELSE IF role = BUYER /\ price > buyer.value
    THEN ValidationResult(FALSE, "offer exceeds value", "budget")
    ELSE IF role = SELLER /\ price < seller.cost
    THEN ValidationResult(FALSE, "offer below cost", "cost")
    ELSE Valid

\* The OFFER / COUNTER rules, in the order of the code.
validate_offer(role, price, buyer, seller, min_price, max_price) ==
    IF price = None
    THEN ValidationResult(FALSE, "offer/counter must include a price", "logic")
    ELSE IF price < min_price \/ price > max_price
    THEN ValidationResult(FALSE, "outside bounds", "bounds")
    ELSE IF role = BUYER /\ price > buyer.budget
    THEN ValidationResult(FALSE, "offer exceeds budget", "budget")
    ELSE IF role = BUYER /\ price > buyer.value
    THEN ValidationResult(FALSE, "offer exceeds value", "budget")
    ELSE IF role = SELLER /\ price < seller.cost
    THEN ValidationResult(FALSE, "offer below cost", "cost")
    ELSE Valid

\* Mutant: a seller may accept below cost.
validate_accept_no_cost(role, buyer, seller, last_offer) ==
    IF last_offer = None
    THEN ValidationResult(FALSE, "Cannot accept without a prior offer", "logic")
    ELSE IF role = BUYER /\ last_offer > buyer.budget
    THEN ValidationResult(FALSE, "accept exceeds budget", "budget")
    ELSE IF role = BUYER /\ last_offer > buyer.value
    THEN ValidationResult(FALSE, "accept exceeds value", "budget")
    ELSE Valid

\* Mutant: a buyer's accept is checked against the budget only.
validate_accept_no_value(role, buyer, seller, last_offer) ==
    IF last_offer = None
    THEN ValidationResult(FALSE, "Cannot accept without a prior offer", "logic")
    ELSE IF role = BUYER /\ last_offer > buyer.budget
    THEN ValidationResult(FALSE, "accept exceeds budget", "budget")
    ELSE IF role = SELLER /\ last_offer < seller.cost
    THEN ValidationResult(FALSE, "accept below cost", "cost")
    ELSE Valid

\* Mutant: a buyer may not accept an offer equal to the budget.
validate_accept_strict(role, buyer, seller, last_offer) ==
    IF last_offer = None
    THEN ValidationResult(FALSE, "Cannot accept without a prior offer", "logic")
    ELSE IF role = BUYER /\ last_offer >= buyer.budget
    THEN ValidationResult(FALSE, "accept exceeds budget", "budget")
    ELSE IF role = BUYER /\ last_offer > buyer.value
    THEN ValidationResult(FALSE, "accept exceeds value", "budget")
    ELSE IF role = SELLER /\ last_offer < seller.cost
    THEN ValidationResult(FALSE, "accept below cost", "cost")
    ELSE Valid

\* The ACCEPT rules, in the order of the code.
validate_accept(role, buyer, seller, last_offer) ==
    IF last_offer = None
    THEN ValidationResult(FALSE, "Cannot accept without a prior offer", "logic")
    ELSE IF role = BUYER /\ last_offer > buyer.budget
    THEN ValidationResult(FALSE, "accept exceeds budget", "budget")
    ELSE IF role = BUYER /\ last_offer > buyer.value
    THEN ValidationResult(FALSE, "accept exceeds value", "budget")
    ELSE IF role = SELLER /\ last_offer < seller.cost
    THEN ValidationResult(FALSE, "accept below cost", "cost")
    ELSE Valid

\* Mutant: every action that carries a price is checked as an offer.
validate_action_priced(role, action, buyer, seller, last_offer, min_price, max_price) ==
    IF action.action \in {OFFER, COUNTER} \/ action.offer_price # None
    THEN validate_offer(role, action.offer_price, buyer, seller, min_price, max_price)
    ELSE IF action.action = ACCEPT
    THEN validate_accept(role, buyer, seller, last_offer)
    ELSE Valid

validate_action(role, action, buyer, seller, last_offer, min_price, max_price) ==
    IF action.action \in {OFFER, COUNTER}
    THEN validate_offer(role, action.offer_price, buyer, seller, min_price, max_price)
    ELSE IF action.action = ACCEPT
    THEN validate_accept(role, buyer, seller, last_offer)
    ELSE Valid

\* ------------------------------------------------------------ ActionJudge
\* round(k/100 * 0.5, 2) and round(k/100 * 1.5, 2) in cents for k = 0..12,
\* as CPython evaluates them on binary floats (index k + 1).  For an even
\* number of cents the product is a whole number of cents and the table is
\* not needed; for an odd number the half cent goes up or down with the
\* binary representation, which the table records.
HalfCents == <<0, 1, 1, 1, 2, 3, 3, 4, 4, 4, 5, 6, 6>>
OneAndHalfCents == <<0, 1, 3, 4, 6, 8, 9, 11, 12, 14, 15, 17, 18>>

buyer_fallback(buyer) ==
    IF buyer.value % 2 = 0 THEN buyer.value \div 2 ELSE HalfCents[buyer.value + 1]
seller_fallback(seller) ==
    IF seller.cost % 2 = 0 THEN 3 * (seller.cost \div 2)
    ELSE OneAndHalfCents[seller.cost + 1]

\* Python truthiness of an optional number: None and 0 are falsy.
Truthy(x) == x # None /\ x # 0

\* Mutant: only COUNTER is corrected in round 0; ACCEPT and REJECT pass.
correct_first_round_counter_only(action, role, buyer, seller) ==
    IF action.action = COUNTER
    THEN NegotiationAction(OFFER, action.offer_price, action.message_public)
    ELSE action

correct_first_round(action, role, buyer, seller) ==
    LET a1 == IF action.action = COUNTER
              THEN NegotiationAction(OFFER, action.offer_price, action.message_public)
              ELSE action
        fallback_price == IF role = BUYER THEN buyer_fallback(buyer)
                                          ELSE seller_fallback(seller)
    IN  IF a1.action \in {ACCEPT, REJECT}
        THEN NegotiationAction(
                 OFFER,
                 IF Truthy(a1.offer_price) THEN a1.offer_price ELSE fallback_price,
                 OPENING_MSG)
        ELSE a1

RiskEvent(round_number, role, res, action) ==
    [round |-> round_number, role |-> role,
     violation_type |-> res.violation_type, reason |-> res.reason,
     attempted_action |-> action.action, attempted_price |-> action.offer_price]

\* Mutant: the substituted REJECT keeps the price of the refused action.
enforce_keep_price(role, action, buyer, seller, last_offer, round_number, min_price, max_price) ==
    LET corrected == IF round_number = 0
                     THEN correct_first_round(action, role, buyer, seller)
                     ELSE action
        res == validate_action(role, corrected, buyer, seller, last_offer,
                               min_price, max_price)
    IN  IF res.valid
        THEN [action |-> corrected, risk_event |-> <<>>]
        ELSE [action |-> NegotiationAction(REJECT, corrected.offer_price,
                                           CANNOT_CONTINUE_MSG),
              risk_event |-> <<RiskEvent(round_number, role, res, corrected)>>]

\* Mutant: the violation is reported but the refused action is returned.
enforce_record_only(role, action, buyer, seller, last_offer, round_number, min_price, max_price) ==
    LET corrected == IF round_number = 0
                     THEN correct_first_round(action, role, buyer, seller)
                     ELSE action
        res == validate_action(role, corrected, buyer, seller, last_offer,
                               min_price, max_price)
    IN  IF res.valid
        THEN [action |-> corrected, risk_event |-> <<>>]
        ELSE [action |-> corrected,
              risk_event |-> <<RiskEvent(round_number, role, res, corrected)>>]

\* enforce returns the action to record and a sequence holding the risk
\* event, empty when there is none.
enforce(role, action, buyer, seller, last_offer, round_number, min_price, max_price) ==
    LET corrected == IF round_number = 0
                     THEN correct_first_round(action, role, buyer, seller)
                     ELSE action
        res == validate_action(role, corrected, buyer, seller, last_offer,
                               min_price, max_price)
    IN  IF res.valid
        THEN [action |-> corrected, risk_event |-> <<>>]
        ELSE [action |-> NegotiationAction(REJECT, None, CANNOT_CONTINUE_MSG),
              risk_event |-> <<RiskEvent(round_number, role, res, corrected)>>]

\* ---------------------------------------------------- NegotiationSession
VARIABLES
    buyer,          \* BuyerState of the session
    seller,         \* SellerState of the session
    min_price,      \* judge.min_price
    max_price,      \* judge.max_price
    max_rounds,     \* session.max_rounds
    pc,             \* "init" before run(), "running" inside the loop, "done"
    round_num,      \* the loop variable: index of the next iteration
    current_round,  \* session.current_round
    last_offer,     \* session.last_offer
    transcript,     \* session.transcript
    risk_events,    \* session.risk_events
    is_complete,    \* session.is_complete
    result,         \* session._result
    decided,        \* history: the actions returned by decide(), in order
    returned,       \* history: what each run() call handed to its caller
    probe,          \* inputs and outputs of a stand-alone judge call
    cfg,            \* the SimulationConfig shared by the simulators
    sim,            \* the MarketSimulator instances, by run
    clock,          \* the wall clock (time.strftime, time.time)
    rngs            \* the SeededRNG objects of a generator exercise, by handle

sessionVars == <<buyer, seller, min_price, max_price, max_rounds, pc, round_num,
                 current_round, last_offer, transcript, risk_events,
                 is_complete, result, decided, returned>>
simVars == <<cfg, sim, clock, rngs>>
vars == <<sessionVars, probe, simVars>>

NoResult == [deal_made |-> FALSE, deal_price |-> None,
             termination_reason |-> "none", rounds_taken |-> 0,
             buyer_surplus |-> 0, seller_surplus |-> 0]

\* Mutant: turns are numbered from 1.
NegotiationTurn_one_based(round_number, role, action) ==
    [round_number |-> round_number + 1, agent_role |-> role, action |-> action]

NegotiationTurn(round_number, role, action) ==
    [round_number |-> round_number, agent_role |-> role, action |-> action]

_build_result(deal_made, deal_price, rounds, reason, buyer_surplus, seller_surplus) ==
    [deal_made |-> deal_made, deal_price |-> deal_price,
     termination_reason |-> reason, rounds_taken |-> rounds,
     buyer_surplus |-> buyer_surplus, seller_surplus |-> seller_surplus]

\* Mutant: the deal is recorded without its price.
_settle_unpriced(b, s, deal_price, rounds, reason) ==
    _build_result(TRUE, None, rounds, reason,
                  IF Truthy(deal_price) THEN b.value - deal_price ELSE 0,
                  IF Truthy(deal_price) THEN deal_price - s.cost ELSE 0)

\* self.buyer and self.seller are the first two arguments.
_settle(b, s, deal_price, rounds, reason) ==
    _build_result(TRUE, deal_price, rounds, reason,
                  IF Truthy(deal_price) THEN b.value - deal_price ELSE 0,
                  IF Truthy(deal_price) THEN deal_price - s.cost ELSE 0)

RoleOf(r) == IF r % 2 = 0 THEN BUYER ELSE SELLER

\* Mutant: the loop runs one iteration too many.
in_range_inclusive(r, rounds) == r <= rounds

\* for round_num in range(self.max_rounds): is there another iteration?
in_range(r, rounds) == r < rounds

\* Mutant: only the opening offer is ever recorded as the last offer.
update_last_offer_first(action, previous) ==
    IF previous = None THEN action.offer_price ELSE previous

\* The last offer after a turn that did not end the session.
update_last_offer(action, previous) ==
    IF action.offer_price # None THEN action.offer_price ELSE previous

\* return self._result: the caller receives the result object; "seen" is
\* what its history and risk_events lists held at that moment.
Returned(res, history, risks) ==
    [result |-> res, seen_history |-> history, seen_risk_events |-> risks]

NoProbe == [used |-> FALSE]
NoCfg == [used |-> FALSE]
NoSim == <<>>

SessionInit ==
    /\ buyer \in {BuyerState(v, b) : v \in Amounts, b \in Amounts}
    /\ seller \in {SellerState(c) : c \in Amounts}
    /\ min_price \in {0, 1}
    /\ max_price \in {MaxAmount - 1}
    /\ max_rounds \in 0..MaxRoundsBound
    /\ pc = "init"
    /\ round_num = 0
    /\ current_round = 0
    /\ last_offer = None
    /\ transcript = <<>>
    /\ risk_events = <<>>
    /\ is_complete = FALSE
    /\ result = NoResult
    /\ decided = <<>>
    /\ returned = <<>>

Init ==
    /\ SessionInit
    /\ probe = NoProbe
    /\ cfg = NoCfg
    /\ sim = NoSim
    /\ clock = 0
    /\ rngs = <<>>

\* run() is entered.
RunStart ==
    /\ pc = "init"
    /\ pc' = "running"
    /\ round_num' = 0
    /\ UNCHANGED <<buyer, seller, min_price, max_price, max_rounds, current_round,
                   last_offer, transcript, risk_events, is_complete, result,
                   decided, returned, probe, simVars>>

\* One iteration of the loop of run(): decide, enforce, record, terminate or
\* update the last offer.
Round(agent_action) ==
    /\ pc = "running"
    /\ in_range(round_num, max_rounds)
    /\ LET role == RoleOf(round_num)
           e == enforce(role, agent_action, buyer, seller, last_offer, round_num,
                        min_price, max_price)
           action == e.action
       IN  /\ current_round' = round_num
           /\ decided' = Append(decided, agent_action)
           /\ risk_events' = risk_events \o e.risk_event
           /\ transcript' = Append(transcript, NegotiationTurn(round_num, role, action))
           /\ IF action.action = ACCEPT
              THEN /\ result' = _settle(buyer, seller, last_offer, round_num + 1, ACCEPTED)
                   /\ is_complete' = TRUE
                   /\ pc' = "done"
                   /\ returned' = Append(returned,
                                         Returned(result', transcript', risk_events'))
                   /\ UNCHANGED <<last_offer, round_num>>
              ELSE IF action.action = REJECT
              THEN /\ result' = _build_result(FALSE, None, round_num + 1, REJECTED, 0, 0)
                   /\ is_complete' = TRUE
                   /\ pc' = "done"
                   /\ returned' = Append(returned,
                                         Returned(result', transcript', risk_events'))
                   /\ UNCHANGED <<last_offer, round_num>>
              ELSE /\ last_offer' = update_last_offer(action, last_offer)
                   /\ round_num' = round_num + 1
                   /\ UNCHANGED <<result, is_complete, pc, returned>>
    /\ UNCHANGED <<buyer, seller, min_price, max_price, max_rounds, probe, simVars>>

\* The loop is exhausted: timeout.
Timeout ==
    /\ pc = "running"
    /\ ~in_range(round_num, max_rounds)
    /\ result' = _build_result(FALSE, None, max_rounds, TIMEOUT, 0, 0)
    /\ is_complete' = TRUE
    /\ pc' = "done"
    /\ returned' = Append(returned, Returned(result', transcript, risk_events))
    /\ UNCHANGED <<buyer, seller, min_price, max_price, max_rounds, round_num,
                   current_round, last_offer, transcript, risk_events, decided,
                   probe, simVars>>

DecideOffer == \E p \in OptPrice : Round(NegotiationAction(OFFER, p, AGENT_MSG))
DecideCounter == \E p \in OptPrice : Round(NegotiationAction(COUNTER, p, AGENT_MSG))
DecideAccept == \E p \in OptPrice : Round(NegotiationAction(ACCEPT, p, AGENT_MSG))
DecideReject == \E p \in OptPrice : Round(NegotiationAction(REJECT, p, AGENT_MSG))

Next ==
    \/ RunStart
    \/ DecideOffer
    \/ DecideCounter
    \/ DecideAccept
    \/ DecideReject
    \/ Timeout

Spec == Init /\ [][Next]_vars

\* Fairness: run() is a loop on one thread and every decide() call returns,
\* so an enabled step of the session is eventually taken.
LiveSpec == Spec /\ WF_vars(Next)

\* ------------------------------------------------- run() called once more
\* Nothing stops a caller from calling run() again on a finished session: the
\* loop starts over at round 0 on the session state the first call left.
MaxRuns == 2
MaxRerunRounds == 2

RunAgain ==
    /\ pc = "done"
    /\ Len(returned) < MaxRuns
    /\ pc' = "running"
    /\ round_num' = 0
    /\ UNCHANGED <<buyer, seller, min_price, max_price, max_rounds, current_round,
                   last_offer, transcript, risk_events, is_complete, result,
                   decided, returned, probe, simVars>>

RerunInit ==
    /\ Init
    /\ buyer = BuyerState(max_price, max_price)
    /\ min_price = 1
    /\ max_rounds \in 1..MaxRerunRounds

RerunNext ==
    \/ RunStart
    \/ DecideOffer
    \/ DecideCounter
    \/ DecideAccept
    \/ DecideReject
    \/ Timeout
    \/ RunAgain

RerunSpec == RerunInit /\ [][RerunNext]_vars

\* ------------------------------------------------- stand-alone judge calls
\* The judge called directly (as the unit tests do) on arbitrary inputs:
\* buyer, seller, bounds, last_offer and round_num hold the arguments.
MaxProbeRound == 2

JudgeInit ==
    /\ buyer \in {BuyerState(v, b) : v \in Amounts, b \in Amounts}
    /\ seller \in {SellerState(c) : c \in Amounts}
    /\ min_price \in {0, 1}
    /\ max_price \in {MaxAmount - 1}
    /\ last_offer \in OptPrice
    /\ round_num \in 0..MaxProbeRound
    /\ probe \in {[used |-> TRUE, role |-> r, action |-> a, called |-> "none",
                   val |-> Valid, enf |-> [action |-> a, risk_event |-> <<>>]] :
                  r \in AgentRole, a \in AgentActions}
    /\ pc = "judge"
    /\ max_rounds = 0
    /\ current_round = 0
    /\ transcript = <<>>
    /\ risk_events = <<>>
    /\ is_complete = FALSE
    /\ result = NoResult
    /\ decided = <<>>
    /\ returned = <<>>
    /\ cfg = NoCfg
    /\ sim = NoSim
    /\ clock = 0
    /\ rngs = <<>>

\* judge.validate(role, action, buyer, seller, last_offer, item, round)
CallValidate ==
    /\ pc = "judge"
    /\ probe.called = "none"
    /\ probe' = [probe EXCEPT !.called = "validate",
                              !.val = validate_action(probe.role, probe.action, buyer,
                                                      seller, last_offer, min_price,
                                                      max_price)]
    /\ UNCHANGED <<sessionVars, simVars>>

\* judge.enforce(role, action, buyer, seller, last_offer, item, round)
CallEnforce ==
    /\ pc = "judge"
    /\ probe.called = "none"
    /\ probe' = [probe EXCEPT !.called = "enforce",
                              !.enf = enforce(probe.role, probe.action, buyer, seller,
                                              last_offer, round_num, min_price,
                                              max_price)]
    /\ UNCHANGED <<sessionVars, simVars>>

JudgeNext ==
    \/ CallValidate
    \/ CallEnforce

JudgeSpec == JudgeInit /\ [][JudgeNext]_vars

\* ------------------------------------------------------------- SeededRNG
\* random.Random is abstracted to what the simulator relies on: a stream
\* whose k-th output is a fixed function of the seed and of k.  A generator
\* is its seed and the number of draws made so far; outputs and seeds range
\* over 0..RngMod-1.
RngMod == 8

SeededRNG(seed) == [seed |-> seed, n |-> 0]

\* The next output of the stream, and the generator after one draw.
raw(rng) == (((rng.seed + 1) * (rng.n + 3) * 5) + (rng.n * rng.n)) % RngMod
advance(rng) == [rng EXCEPT !.n = @ + 1]

\* rng.randint(a, b)
randint(rng, a, b) == a + (raw(rng) % (b - a + 1))

\* round(rng.uniform(a, b), 2), amounts being kept on a grid of the given step.
uniform(rng, a, b, step) == a + step * (raw(rng) % (((b - a) \div step) + 1))

\* rng.choice(seq)
choice(rng, seq) == seq[(raw(rng) % Len(seq)) + 1]

\* Mutant: the child is seeded with the parent's own seed and the parent
\* does not move.
fork_same_seed(rng) == [child |-> SeededRNG(rng.seed), parent |-> rng]

\* Mutant: the child is seeded from the wall clock.
fork_from_clock(rng) == [child |-> SeededRNG(clock % RngMod), parent |-> advance(rng)]

\* fork(): the child is seeded with the next draw of the parent.
fork(rng) == [child |-> SeededRNG(raw(rng)), parent |-> advance(rng)]

\* ----------------------------------------------- generators used directly
\* A caller holding SeededRNG objects draws from them and forks them in any
\* order.  Each object is its generator, the calls made on it ("draw" or
\* "fork"), the values those calls produced (for a fork, the child's seed)
\* and where it came from.  An origin is a sequence of numbers: the seed for
\* a generator constructed directly; for a child, the parent's origin, -1,
\* and the calls made on the parent before the fork (0 a draw, 1 a fork).
MaxGens == 4
MaxCalls == 3
MaxRootSeed == 1

CallCodes(calls) == [i \in 1..Len(calls) |-> IF calls[i] = "draw" THEN 0 ELSE 1]

RngObject(gen, origin, forked_from, forked_at) ==
    [gen |-> gen, calls |-> <<>>, outs |-> <<>>, origin |-> origin,
     forked_from |-> forked_from, forked_at |-> forked_at]

RngInit ==
    /\ rngs \in {<<RngObject(SeededRNG(s1), <<s1>>, <<>>, <<>>),
                    RngObject(SeededRNG(s2), <<s2>>, <<>>, <<>>)>> :
                  s1 \in 0..MaxRootSeed, s2 \in 0..MaxRootSeed}
    /\ pc = "rng"
    /\ cfg = NoCfg
    /\ sim = NoSim
    /\ clock = 0
    /\ probe = NoProbe
    /\ buyer = BuyerState(0, 0)
    /\ seller = SellerState(0)
    /\ min_price = 0
    /\ max_price = 0
    /\ max_rounds = 0
    /\ round_num = 0
    /\ current_round = 0
    /\ last_offer = None
    /\ transcript = <<>>
    /\ risk_events = <<>>
    /\ is_complete = FALSE
    /\ result = NoResult
    /\ decided = <<>>
    /\ returned = <<>>

\* rngs[h].random(): one value is drawn from object h.
RngDraw(h) ==
    /\ pc = "rng"
    /\ Len(rngs[h].calls) < MaxCalls
    /\ rngs' = [rngs EXCEPT ![h] = [@ EXCEPT !.gen = advance(@),
                                             !.calls = Append(@, "draw"),
                                             !.outs = Append(@, raw(rngs[h].gen))]]
    /\ UNCHANGED <<sessionVars, probe, cfg, sim, clock>>

\* rngs[h].fork(): a new object is returned, object h has made one more call.
RngFork(h) ==
    /\ pc = "rng"
    /\ Len(rngs[h].calls) < MaxCalls
    /\ Len(rngs) < MaxGens
    /\ LET f == fork(rngs[h].gen)
       IN  rngs' = Append([rngs EXCEPT ![h] = [@ EXCEPT !.gen = f.parent,
                                                        !.calls = Append(@, "fork"),
                                                        !.outs = Append(@, f.child.seed)]],
                          RngObject(f.child,
                                    rngs[h].origin \o <<-1>> \o CallCodes(rngs[h].calls),
                                    rngs[h].origin, rngs[h].calls))
    /\ UNCHANGED <<sessionVars, probe, cfg, sim, clock>>

RngNext ==
    \/ \E h \in 1..Len(rngs) : RngDraw(h)
    \/ \E h \in 1..Len(rngs) : RngFork(h)

RngSpec == RngInit /\ [][RngNext]_vars

Swap(seq, i, j) == [seq EXCEPT ![i] = seq[j], ![j] = seq[i]]

\* rng.shuffle(seq): for i in reversed(range(1, len)): j = randbelow(i + 1);
\* swap.  i is the 1-based position being filled.
RECURSIVE shuffle_from(_, _, _)
shuffle_from(rng, seq, i) ==
    IF i <= 1 THEN [seq |-> seq, rng |-> rng]
    ELSE shuffle_from(advance(rng), Swap(seq, i, (raw(rng) % i) + 1), i - 1)

shuffle(rng, seq) == shuffle_from(rng, seq, Len(seq))

\* Nearest integer to num / den, ties to even (Python round on an exact
\* decimal); the amounts of the simulator are chosen so that no tie arises.
RoundDiv(num, den) ==
    LET q == num \div den
        rem == num % den
    IN  IF 2 * rem < den THEN q
        ELSE IF 2 * rem > den THEN q + 1
        ELSE IF q % 2 = 0 THEN q ELSE q + 1

\* ------------------------------------------------------- ParameterSource
\* Fixed values are written in thousandths of the unit, as a configuration
\* file may carry any number of decimals; drawn amounts are cents, drawn
\* integers are whole units.
\* is_fixed: _values is not None.  step is the grid of the distribution.
ParameterSource(fixed_value, dist_min, dist_max, step, is_int, selection) ==
    [is_fixed |-> fixed_value # <<>>, values |-> fixed_value,
     dist_min |-> dist_min, dist_max |-> dist_max, step |-> step,
     is_int |-> is_int, selection |-> selection, cycle_idx |-> 0]

\* A scalar fixed_value is kept as the list holding it.
ScalarSource(fixed_scalar, dist_min, dist_max, step, is_int, selection) ==
    ParameterSource(<<fixed_scalar>>, dist_min, dist_max, step, is_int, selection)

\* int(val) if is_int else round(float(val), 2), for val >= 0 in thousandths.
to_number(val, is_int) == IF is_int THEN val \div 1000 ELSE RoundDiv(val, 10)

\* Mutant: the cycle index is read but never advanced.
draw_index_kept(src, rng) ==
    IF src.is_fixed
    THEN IF Len(src.values) = 1
         THEN [val |-> to_number(src.values[1], src.is_int), rng |-> rng, src |-> src]
         ELSE IF src.selection = "random"
         THEN [val |-> to_number(choice(rng, src.values), src.is_int),
               rng |-> advance(rng), src |-> src]
         ELSE [val |-> to_number(src.values[(src.cycle_idx % Len(src.values)) + 1],
                                 src.is_int),
               rng |-> rng, src |-> src]
    ELSE IF src.is_int
    THEN [val |-> randint(rng, src.dist_min, src.dist_max),
          rng |-> advance(rng), src |-> src]
    ELSE [val |-> uniform(rng, src.dist_min, src.dist_max, src.step),
          rng |-> advance(rng), src |-> src]

\* Mutant: a list of one value is not taken as fixed, the distribution is
\* sampled instead.
draw_single_sampled(src, rng) ==
    IF src.is_fixed /\ Len(src.values) > 1
    THEN IF src.selection = "random"
         THEN [val |-> to_number(choice(rng, src.values), src.is_int),
               rng |-> advance(rng), src |-> src]
         ELSE [val |-> to_number(src.values[(src.cycle_idx % Len(src.values)) + 1],
                                 src.is_int),
               rng |-> rng,
               src |-> [src EXCEPT !.cycle_idx = @ + 1]]
    ELSE IF src.is_int
    THEN [val |-> randint(rng, src.dist_min, src.dist_max),
          rng |-> advance(rng), src |-> src]
    ELSE [val |-> uniform(rng, src.dist_min, src.dist_max, src.step),
          rng |-> advance(rng), src |-> src]

\* draw(rng): the value, the generator and the source afterwards.
draw(src, rng) ==
    IF src.is_fixed
    THEN IF Len(src.values) = 1
         THEN [val |-> to_number(src.values[1], src.is_int), rng |-> rng, src |-> src]
         ELSE IF src.selection = "random"
         THEN [val |-> to_number(choice(rng, src.values), src.is_int),
               rng |-> advance(rng), src |-> src]
         ELSE [val |-> to_number(src.values[(src.cycle_idx % Len(src.values)) + 1],
                                 src.is_int),
               rng |-> rng,
               src |-> [src EXCEPT !.cycle_idx = @ + 1]]
    ELSE IF src.is_int
    THEN [val |-> randint(rng, src.dist_min, src.dist_max),
          rng |-> advance(rng), src |-> src]
    ELSE [val |-> uniform(rng, src.dist_min, src.dist_max, src.step),
          rng |-> advance(rng), src |-> src]

\* ------------------------------------------- a source drawn again and again
\* One ParameterSource is drawn from repeatedly with a generator that other
\* code uses in between.  Next to it a source built from the scalar
\* values[0] is drawn with the same generator state.  outs are the values
\* returned, moved whether the call advanced the generator.
MaxList == 3
MaxDraws == 5
MaxSkips == 2

FixedNumbers == {10000, 20000, 30000}
FixedLists == UNION {[1..n -> FixedNumbers] : n \in 1..MaxList}

SourceProbe(src, scalar, rng) ==
    [used |-> TRUE, kind |-> "source", src |-> src, scalar |-> scalar,
     rng |-> rng, outs |-> <<>>, moved |-> <<>>, scalar_outs |-> <<>>,
     scalar_moved |-> <<>>, skips |-> 0]

SourceProbes ==
    {SourceProbe(ParameterSource(fv, IF int THEN 10 ELSE 1000,
                                 IF int THEN 30 ELSE 3000,
                                 IF int THEN 1 ELSE 1000, int, sel),
                 ScalarSource(IF fv = <<>> THEN 10000 ELSE fv[1],
                              IF int THEN 10 ELSE 1000, IF int THEN 30 ELSE 3000,
                              IF int THEN 1 ELSE 1000, int, sel),
                 SeededRNG(sd)) :
        fv \in FixedLists \cup {<<>>}, int \in BOOLEAN,
        sel \in {"cycle", "random"}, sd \in 0..MaxRootSeed}

SourceInit ==
    /\ probe \in SourceProbes
    /\ pc = "source"
    /\ cfg = NoCfg
    /\ sim = NoSim
    /\ clock = 0
    /\ rngs = <<>>
    /\ buyer = BuyerState(0, 0)
    /\ seller = SellerState(0)
    /\ min_price = 0
    /\ max_price = 0
    /\ max_rounds = 0
    /\ round_num = 0
    /\ current_round = 0
    /\ last_offer = None
    /\ transcript = <<>>
    /\ risk_events = <<>>
    /\ is_complete = FALSE
    /\ result = NoResult
    /\ decided = <<>>
    /\ returned = <<>>

\* src.draw(rng)
SourceDraw ==
    /\ pc = "source"
    /\ Len(probe.outs) < MaxDraws
    /\ LET d == draw(probe.src, probe.rng)
           s == draw(probe.scalar, probe.rng)
       IN  probe' = [probe EXCEPT !.src = d.src, !.rng = d.rng,
                                  !.scalar = s.src,
                                  !.outs = Append(@, d.val),
                                  !.moved = Append(@, d.rng # probe.rng),
                                  !.scalar_outs = Append(@, s.val),
                                  !.scalar_moved = Append(@, s.rng # probe.rng)]
    /\ UNCHANGED <<sessionVars, simVars>>

\* Other code draws from the same generator.
SourceRngUsed ==
    /\ pc = "source"
    /\ probe.skips < MaxSkips
    /\ probe' = [probe EXCEPT !.rng = advance(@), !.skips = @ + 1]
    /\ UNCHANGED <<sessionVars, simVars>>

SourceNext ==
    \/ SourceDraw
    \/ SourceRngUsed

SourceSpec == SourceInit /\ [][SourceNext]_vars

\* fixed.<field> if fixed else None; an absent value is the empty list.
FixedOr(c, field) == IF c.scenario_mode = "fixed" THEN c.fixed[field] ELSE <<>>
SelectionOf(c) == IF c.scenario_mode = "fixed" THEN c.fixed.selection ELSE "cycle"

\* ----------------------------------------------------- generate_buyers
\* Buyer i of the tick: value, budget, patience are drawn in that order.
RECURSIVE buyers_from(_, _, _, _, _, _, _)
buyers_from(rng, count, step, i, value_src, budget_src, patience_src) ==
    IF i >= count THEN [list |-> <<>>, rng |-> rng]
    ELSE LET v == draw(value_src, rng)
             b == draw(budget_src, v.rng)
             p == draw(patience_src, b.rng)
             rest == buyers_from(p.rng, count, step, i + 1, v.src, b.src, p.src)
         IN  [list |-> <<[buyer_id |-> <<"buyer", step, i>>, value |-> v.val,
                          budget |-> b.val, patience |-> p.val]>> \o rest.list,
              rng |-> rest.rng]

\* Mutant: the buyers are drawn from a copy of the stream, which is handed
\* on where it was.
generate_buyers_on_copy(rng, count, step, c) ==
    LET m == c.market
        sel == SelectionOf(c)
        g == buyers_from(rng, count, step, 0,
                 ParameterSource(FixedOr(c, "buyer_value"), m.buyer_value_min,
                                 m.buyer_value_max, m.amount_step, FALSE, sel),
                 ParameterSource(FixedOr(c, "buyer_budget"), m.buyer_budget_min,
                                 m.buyer_budget_max, m.amount_step, FALSE, sel),
                 ParameterSource(FixedOr(c, "buyer_patience"), m.buyer_patience_min,
                                 m.buyer_patience_max, 1, TRUE, sel))
    IN  [list |-> g.list, rng |-> rng]

generate_buyers(rng, count, step, c) ==
    LET m == c.market
        sel == SelectionOf(c)
    IN  buyers_from(rng, count, step, 0,
            ParameterSource(FixedOr(c, "buyer_value"), m.buyer_value_min,
                            m.buyer_value_max, m.amount_step, FALSE, sel),
            ParameterSource(FixedOr(c, "buyer_budget"), m.buyer_budget_min,
                            m.buyer_budget_max, m.amount_step, FALSE, sel),
            ParameterSource(FixedOr(c, "buyer_patience"), m.buyer_patience_min,
                            m.buyer_patience_max, 1, TRUE, sel))

\* Seller i of the tick: cost, margin, patience are drawn in that order.
\* The margin is drawn in hundredths and kept in ten-thousandths
\* (round(margin, 4)).
RECURSIVE sellers_from(_, _, _, _, _, _, _)
sellers_from(rng, count, step, i, cost_src, margin_src, patience_src) ==
    IF i >= count THEN [list |-> <<>>, rng |-> rng]
    ELSE LET co == draw(cost_src, rng)
             ma == draw(margin_src, co.rng)
             p == draw(patience_src, ma.rng)
             rest == sellers_from(p.rng, count, step, i + 1, co.src, ma.src, p.src)
         IN  [list |-> <<[seller_id |-> <<"seller", step, i>>, cost |-> co.val,
                          target_margin |-> ma.val * 100, patience |-> p.val]>>
                       \o rest.list,
              rng |-> rest.rng]

generate_sellers(rng, count, step, c) ==
    LET m == c.market
        sel == SelectionOf(c)
    IN  sellers_from(rng, count, step, 0,
            ParameterSource(FixedOr(c, "seller_cost"), m.seller_cost_min,
                            m.seller_cost_max, m.amount_step, FALSE, sel),
            ParameterSource(FixedOr(c, "seller_target_margin"), m.seller_margin_min,
                            m.seller_margin_max, m.margin_step, FALSE, sel),
            ParameterSource(FixedOr(c, "seller_patience"), m.seller_patience_min,
                            m.seller_patience_max, 1, TRUE, sel))

\* ------------------------------------------------------------ apply_shocks
\* rng.random() is the raw output out of RngMod; multipliers are per cent.
\* The result carries, next to the lists returned and the generator
\* afterwards, the lists handed in as the call leaves them (given_*).
\* Mutant: the firing draw is made before the enabled flag is looked at.
apply_shocks_draw_first(buyers, sellers, rng, sh) ==
    IF ~sh.enabled \/ raw(rng) > sh.shock_probability
    THEN [buyers |-> buyers, sellers |-> sellers, rng |-> advance(rng),
          given_buyers |-> buyers, given_sellers |-> sellers]
    ELSE LET r1 == advance(rng)
             demand_mult == uniform(r1, sh.demand_multiplier_min,
                                    sh.demand_multiplier_max, sh.multiplier_step)
             r2 == advance(r1)
             supply_mult == uniform(r2, sh.supply_multiplier_min,
                                    sh.supply_multiplier_max, sh.multiplier_step)
         IN  [buyers |-> [i \in 1..Len(buyers) |->
                             [buyers[i] EXCEPT
                                 !.value = RoundDiv(@ * demand_mult, 100)]],
              sellers |-> [i \in 1..Len(sellers) |->
                              [sellers[i] EXCEPT
                                  !.cost = RoundDiv(@ * supply_mult, 100)]],
              rng |-> advance(r2),
              given_buyers |-> buyers, given_sellers |-> sellers]

\* Mutant: a shock scales the budget along with the value.
apply_shocks_budget_scaled(buyers, sellers, rng, sh) ==
    IF ~sh.enabled
    THEN [buyers |-> buyers, sellers |-> sellers, rng |-> rng,
          given_buyers |-> buyers, given_sellers |-> sellers]
    ELSE IF raw(rng) > sh.shock_probability
    THEN [buyers |-> buyers, sellers |-> sellers, rng |-> advance(rng),
          given_buyers |-> buyers, given_sellers |-> sellers]
    ELSE LET r1 == advance(rng)
             demand_mult == uniform(r1, sh.demand_multiplier_min,
                                    sh.demand_multiplier_max, sh.multiplier_step)
             r2 == advance(r1)
             supply_mult == uniform(r2, sh.supply_multiplier_min,
                                    sh.supply_multiplier_max, sh.multiplier_step)
         IN  [buyers |-> [i \in 1..Len(buyers) |->
                             [buyers[i] EXCEPT
                                 !.value = RoundDiv(@ * demand_mult, 100),
                                 !.budget = RoundDiv(@ * demand_mult, 100)]],
              sellers |-> [i \in 1..Len(sellers) |->
                              [sellers[i] EXCEPT
                                  !.cost = RoundDiv(@ * supply_mult, 100)]],
              rng |-> advance(r2),
              given_buyers |-> buyers, given_sellers |-> sellers]

apply_shocks(buyers, sellers, rng, sh) ==
    IF ~sh.enabled
    THEN [buyers |-> buyers, sellers |-> sellers, rng |-> rng,
          given_buyers |-> buyers, given_sellers |-> sellers]
    ELSE IF raw(rng) > sh.shock_probability
    THEN [buyers |-> buyers, sellers |-> sellers, rng |-> advance(rng),
          given_buyers |-> buyers, given_sellers |-> sellers]
    ELSE LET r1 == advance(rng)
             demand_mult == uniform(r1, sh.demand_multiplier_min,
                                    sh.demand_multiplier_max, sh.multiplier_step)
             r2 == advance(r1)
             supply_mult == uniform(r2, sh.supply_multiplier_min,
                                    sh.supply_multiplier_max, sh.multiplier_step)
         IN  [buyers |-> [i \in 1..Len(buyers) |->
                             [buyers[i] EXCEPT
                                 !.value = RoundDiv(@ * demand_mult, 100)]],
              sellers |-> [i \in 1..Len(sellers) |->
                              [sellers[i] EXCEPT
                                  !.cost = RoundDiv(@ * supply_mult, 100)]],
              rng |-> advance(r2),
              given_buyers |-> buyers, given_sellers |-> sellers]

\* ---------------------------------------------------------------- Catalog
\* Item i takes the fixed price i mod len when fixed prices are given, and
\* draws a reference price from the generator it was handed otherwise.
RECURSIVE items_from(_, _, _, _)
items_from(rng, c, prices, i) ==
    IF i >= c.market.num_item_types THEN [items |-> <<>>, rng |-> rng]
    ELSE LET fixedPrice == prices # <<>>
             ref_price == IF fixedPrice
                          THEN RoundDiv(prices[(i % Len(prices)) + 1], 10)
                          ELSE uniform(rng, c.market.item_ref_price_min,
                                       c.market.item_ref_price_max,
                                       c.market.amount_step)
             rest == items_from(IF fixedPrice THEN rng ELSE advance(rng),
                                c, prices, i + 1)
         IN  [items |-> <<[item_id |-> i, reference_price |-> ref_price]>>
                        \o rest.items,
              rng |-> rest.rng]

Catalog(rng, c) == items_from(rng, c, FixedOr(c, "item_reference_price"), 0)

\* ----------------------------------------------------------- RandomMatcher
RECURSIVE pairs_from(_, _, _, _, _)
pairs_from(rng, b, s, items, i) ==
    IF i > Len(b) THEN [pairs |-> <<>>, rng |-> rng]
    ELSE LET rest == pairs_from(advance(rng), b, s, items, i + 1)
         IN  [pairs |-> <<[buyer |-> b[i], seller |-> s[i],
                           item |-> choice(rng, items)]>> \o rest.pairs,
              rng |-> rest.rng]

\* Mutant: the callers' lists themselves are shuffled, over their first n
\* places.
match_in_place(buyers, sellers, items, rng) ==
    LET n == Min(Len(buyers), Len(sellers))
        b == shuffle(rng, SubSeq(buyers, 1, n))
        s == shuffle(b.rng, SubSeq(sellers, 1, n))
        p == pairs_from(s.rng, b.seq, s.seq, items, 1)
    IN  [pairs |-> p.pairs, rng |-> p.rng,
         buyers |-> b.seq \o SubSeq(buyers, n + 1, Len(buyers)),
         sellers |-> s.seq \o SubSeq(sellers, n + 1, Len(sellers)),
         raised |-> FALSE]

\* b = list(buyers[:n]) and s = list(sellers[:n]) are copies: the pairs, the
\* generator afterwards, and the callers' lists as the call leaves them.
\* rng.choice(items) on an empty list of items raises IndexError for the
\* first pair, after both shuffles.
match(buyers, sellers, items, rng) ==
    LET n == Min(Len(buyers), Len(sellers))
        b == shuffle(rng, SubSeq(buyers, 1, n))
        s == shuffle(b.rng, SubSeq(sellers, 1, n))
        p == pairs_from(s.rng, b.seq, s.seq, items, 1)
        raised == n >= 1 /\ items = <<>>
    IN  [pairs |-> IF raised THEN <<>> ELSE p.pairs,
         rng |-> IF raised THEN s.rng ELSE p.rng,
         buyers |-> buyers, sellers |-> sellers, raised |-> raised]

\* ---------------------------------------------------------- RuleBasedAgent
\* Amounts are cents and margins are ten-thousandths; the linear targets are
\* compared and rounded in exact arithmetic:
\*   buyer  target = cap * (D + r) / (2 D)
\*   seller target = cost * (10000 D + 2 m (D - r)) / (10000 D)
\* with D = max(max_rounds - 1, 1) and r the round number.
AgentContext(role, round_number, rounds, last, reservation_price, budget, target_margin) ==
    [role |-> role, round_number |-> round_number, max_rounds |-> rounds,
     last_offer |-> last, reservation_price |-> reservation_price,
     budget |-> budget, target_margin |-> target_margin]

Progress(ctx) == IF ctx.max_rounds - 1 > 1 THEN ctx.max_rounds - 1 ELSE 1

\* Mutant: the buyer has no last-round rule and goes on countering.
_decide_buyer_patient(ctx) ==
    LET cap == Min(ctx.reservation_price,
                   IF Truthy(ctx.budget) THEN ctx.budget ELSE ctx.reservation_price)
        D == Progress(ctx)
        num == cap * (D + ctx.round_number)
        den == 2 * D
    IN  IF ctx.last_offer # None /\ ctx.last_offer * den <= num
        THEN NegotiationAction(ACCEPT, None, AGENT_MSG)
        ELSE NegotiationAction(IF ctx.round_number = 0 THEN OFFER ELSE COUNTER,
                               Min(RoundDiv(num, den), cap), AGENT_MSG)

_decide_buyer(ctx) ==
    LET cap == Min(ctx.reservation_price,
                   IF Truthy(ctx.budget) THEN ctx.budget ELSE ctx.reservation_price)
        D == Progress(ctx)
        num == cap * (D + ctx.round_number)
        den == 2 * D
    IN  IF ctx.last_offer # None /\ ctx.last_offer * den <= num
        THEN NegotiationAction(ACCEPT, None, AGENT_MSG)
        ELSE IF ctx.round_number >= ctx.max_rounds - 1
        THEN IF ctx.last_offer # None /\ ctx.last_offer <= cap
             THEN NegotiationAction(ACCEPT, None, AGENT_MSG)
             ELSE NegotiationAction(REJECT, None, AGENT_MSG)
        ELSE NegotiationAction(IF ctx.round_number = 0 THEN OFFER ELSE COUNTER,
                               Min(RoundDiv(num, den), cap), AGENT_MSG)

\* Mutant: the seller never concedes: the target stays at the opening price
\* and anything below it is refused in the last round.
_decide_seller_firm(ctx) ==
    LET cost == ctx.reservation_price
        margin == IF Truthy(ctx.target_margin) THEN ctx.target_margin ELSE 1500
        num == cost * (10000 + 2 * margin)
        den == 10000
        rounded == RoundDiv(num, den)
    IN  IF ctx.last_offer # None /\ ctx.last_offer * den >= num
        THEN NegotiationAction(ACCEPT, None, AGENT_MSG)
        ELSE IF ctx.round_number >= ctx.max_rounds - 1
        THEN NegotiationAction(REJECT, None, AGENT_MSG)
        ELSE NegotiationAction(IF ctx.round_number = 0 THEN OFFER ELSE COUNTER,
                               IF rounded >= cost THEN rounded ELSE cost, AGENT_MSG)

_decide_seller(ctx) ==
    LET cost == ctx.reservation_price
        margin == IF Truthy(ctx.target_margin) THEN ctx.target_margin ELSE 1500
        D == Progress(ctx)
        num == cost * (10000 * D + 2 * margin * (D - ctx.round_number))
        den == 10000 * D
        rounded == RoundDiv(num, den)
    IN  IF ctx.last_offer # None /\ ctx.last_offer * den >= num
        THEN NegotiationAction(ACCEPT, None, AGENT_MSG)
        ELSE IF ctx.round_number >= ctx.max_rounds - 1
        THEN IF ctx.last_offer # None /\ ctx.last_offer >= cost
             THEN NegotiationAction(ACCEPT, None, AGENT_MSG)
             ELSE NegotiationAction(REJECT, None, AGENT_MSG)
        ELSE NegotiationAction(IF ctx.round_number = 0 THEN OFFER ELSE COUNTER,
                               IF rounded >= cost THEN rounded ELSE cost, AGENT_MSG)

decide(ctx) == IF ctx.role = BUYER THEN _decide_buyer(ctx) ELSE _decide_seller(ctx)

\* ------------------------------------------------------------ MemoryStore
MemoryStore(k) == [memories |-> <<>>, k |-> k]

\* seq[-k:] for k >= 1
LastK(seq, k) == SubSeq(seq, IF Len(seq) > k THEN Len(seq) - k + 1 ELSE 1, Len(seq))

\* retrieve(item_name): the last k memories of the item, else the last k.
retrieve(store, item_name) ==
    IF store.memories = <<>> THEN <<>>
    ELSE LET same_item == SelectSeq(store.memories,
                                    LAMBDA m : m.item_name = item_name)
         IN  IF same_item # <<>> THEN LastK(same_item, store.k)
             ELSE LastK(store.memories, store.k)

\* MemoryAgent.record_outcome: the store after the summary was added.
record_outcome(store, res) ==
    LET style == IF res.deal_made /\ res.rounds_taken <= 3 THEN "eager"
                 ELSE IF res.deal_made THEN "moderate"
                 ELSE IF res.termination_reason = TIMEOUT THEN "stubborn"
                 ELSE "aggressive"
    IN  [store EXCEPT !.memories =
            Append(@, [item_name |-> res.item_id, deal_made |-> res.deal_made,
                       deal_price |-> res.deal_price, rounds |-> res.rounds_taken,
                       opponent_style |-> style])]

\* ------------------------------------------------------------- LLM agents
\* The language model is outside the program.  It is taken as a fixed
\* function of the prompt, one per configured model, and generate is given
\* with the reply already read: <<>> when no valid action can be extracted
\* from the text, <<action>> otherwise.
\*   "garbled"   never answers with a valid action;
\*   "anchoring" holds to its own limit, moved to the price of the last deal
\*               its prompt recalls.
LlmModels == {"garbled", "anchoring"}

generate(model, prompt) ==
    IF model = "garbled" THEN <<>>
    ELSE LET ctx == prompt.ctx
             deals == SelectSeq(prompt.memories,
                                LAMBDA m : m.deal_made /\ Truthy(m.deal_price))
             recalled == deals[Len(deals)].deal_price
             own == IF ctx.role = BUYER
                    THEN Min(ctx.reservation_price, ctx.budget)
                    ELSE ctx.reservation_price
             limit == IF deals = <<>> THEN own
                      ELSE IF ctx.role = BUYER THEN Min(own, recalled)
                      ELSE IF recalled > own THEN recalled ELSE own
             agreeable == /\ ctx.last_offer # None
                          /\ IF ctx.role = BUYER THEN ctx.last_offer <= limit
                             ELSE ctx.last_offer >= limit
         IN  IF agreeable THEN <<NegotiationAction(ACCEPT, None, AGENT_MSG)>>
             ELSE <<NegotiationAction(IF ctx.round_number = 0 THEN OFFER ELSE COUNTER,
                                      limit, AGENT_MSG)>>

\* _fallback_action: 0.6 of the reservation price capped by the budget for a
\* buyer, 1.3 of it for a seller, in round 0; REJECT later.
_fallback_action(ctx) ==
    IF ctx.round_number = 0
    THEN NegotiationAction(OFFER,
             IF ctx.role = BUYER
             THEN RoundDiv(Min(ctx.reservation_price * 6,
                               IF ctx.budget # None THEN ctx.budget * 10
                               ELSE ctx.reservation_price * 6), 10)
             ELSE RoundDiv(ctx.reservation_price * 13, 10),
             AGENT_MSG)
    ELSE NegotiationAction(REJECT, None, AGENT_MSG)

\* _call_and_parse: the prompt, once more with the format reminder, then
\* the fallback.
_call_and_parse(model, prompt, ctx) ==
    LET first == generate(model, prompt)
        second == generate(model, [prompt EXCEPT !.retry = TRUE])
    IN  IF first # <<>> THEN first[1]
        ELSE IF second # <<>> THEN second[1]
        ELSE _fallback_action(ctx)

AgentTypes == {"rule_based", "llm_reactive", "llm_deliberative", "memory"}

\* MarketSimulator._create_agent; sm is the simulator, whose two memory
\* stores are handed to every memory agent of the role.
_create_agent(agent_type, role, sm, llm) ==
    [type |-> agent_type, model |-> llm.model,
     memory |-> IF agent_type = "memory"
                THEN IF role = BUYER THEN sm.buyer_memory ELSE sm.seller_memory
                ELSE MemoryStore(1)]

\* agent.decide(ctx) for the agent types of the simulator.
agent_decide(agent, ctx, item_name) ==
    IF agent.type = "rule_based" THEN decide(ctx)
    ELSE _call_and_parse(agent.model,
             [kind |-> agent.type, ctx |-> ctx, retry |-> FALSE,
              memories |-> IF agent.type = "memory"
                           THEN retrieve(agent.memory, item_name) ELSE <<>>],
             ctx)

\* hasattr(agent, "record_outcome")
has_record_outcome(agent) == agent.type = "memory"

\* OllamaLLMBackend.generate makes one request per attempt, max_retries
\* attempts at most, and returns the text of the first that succeeds; when
\* every attempt failed it raises ConnectionError.  outage is the number of
\* requests the server fails from now on.
generate_raises(outage, max_retries) == outage >= max_retries

\* How a call ends: with a value, or with an exception handed to the caller.
Raised(error) == [raised |-> TRUE, error |-> error]
Decided(action) == [raised |-> FALSE, action |-> action]

\* agent.decide(ctx) as the session calls it.  In the three LLM agents
\* _call_and_parse calls self._backend.generate outside any try block, so
\* the ConnectionError of the first call leaves decide.  Once a request was
\* answered the outage is over, and the second call is answered too.
decide_call(agent, ctx, item_name, outage, max_retries) ==
    IF agent.type # "rule_based" /\ generate_raises(outage, max_retries)
    THEN Raised("ConnectionError")
    ELSE Decided(agent_decide(agent, ctx, item_name))

\* ------------------------------------------------------- a whole session
\* The result record of run() together with the fields _build_result copies
\* from the session.
NegotiationResult(base, se, history, risks) ==
    base @@ [item_id |-> se.item.item_id, buyer_id |-> se.buyer.buyer_id,
             seller_id |-> se.seller.seller_id, history |-> history,
             buyer_value |-> se.buyer.value, seller_cost |-> se.seller.cost,
             risk_events |-> risks, time_step |-> se.time_step]

\* run() from round r on, with the last offer, transcript and risk events so far.
RECURSIVE run_from(_, _, _, _, _)
run_from(se, r, last, history, risks) ==
    IF ~in_range(r, se.max_rounds)
    THEN NegotiationResult(_build_result(FALSE, None, se.max_rounds, TIMEOUT, 0, 0),
                           se, history, risks)
    ELSE LET role == RoleOf(r)
             ctx == IF role = BUYER
                    THEN AgentContext(BUYER, r, se.max_rounds, last, se.buyer.value,
                                      se.buyer.budget, None)
                    ELSE AgentContext(SELLER, r, se.max_rounds, last, se.seller.cost,
                                      None, se.seller.target_margin)
             agent == IF role = BUYER THEN se.buyer_agent ELSE se.seller_agent
             e == enforce(role, agent_decide(agent, ctx, se.item.item_id),
                          se.buyer, se.seller, last, r, se.min_price, se.max_price)
             action == e.action
             history2 == Append(history, NegotiationTurn(r, role, action))
             risks2 == risks \o e.risk_event
         IN  IF action.action = ACCEPT
             THEN NegotiationResult(_settle(se.buyer, se.seller, last, r + 1, ACCEPTED),
                                    se, history2, risks2)
             ELSE IF action.action = REJECT
             THEN NegotiationResult(
                      _build_result(FALSE, None, r + 1, REJECTED, 0, 0),
                      se, history2, risks2)
             ELSE run_from(se, r + 1, update_last_offer(action, last), history2, risks2)

\* Mutant: the session is told the number of the tick, counted from 1.
NegotiationSession_from_one(buyer_agent, seller_agent, b, s, item, neg, time_step) ==
    [buyer_agent |-> buyer_agent, seller_agent |-> seller_agent,
     buyer |-> b, seller |-> s, item |-> item, max_rounds |-> neg.max_rounds,
     min_price |-> neg.min_price, max_price |-> neg.max_price,
     time_step |-> time_step + 1]

NegotiationSession(buyer_agent, seller_agent, b, s, item, neg, time_step) ==
    [buyer_agent |-> buyer_agent, seller_agent |-> seller_agent,
     buyer |-> b, seller |-> s, item |-> item, max_rounds |-> neg.max_rounds,
     min_price |-> neg.min_price, max_price |-> neg.max_price,
     time_step |-> time_step]

run(se) == run_from(se, 0, None, <<>>, <<>>)

\* ------------------------------------------------------ compute_tick_stats
DealCount(results) == Cardinality({i \in 1..Len(results) : results[i].deal_made})

\* Counts and ratios; ratios are in ten-thousandths (round(x, 4)).  The
\* price and surplus statistics are left out.
\* Mutant: a tick without sessions is reported as a tick where all failed.
compute_tick_stats_all_failed(tick, results) ==
    LET total == Len(results)
        deal_count == DealCount(results)
    IN  IF total = 0
        THEN [tick |-> tick, num_sessions |-> 0, deals_made |-> 0,
              fail_rate |-> 10000, liquidity |-> 0]
        ELSE [tick |-> tick, num_sessions |-> total, deals_made |-> deal_count,
              fail_rate |-> RoundDiv((total - deal_count) * 10000, total),
              liquidity |-> RoundDiv(deal_count * 10000, total)]

compute_tick_stats(tick, results) ==
    LET total == Len(results)
        deal_count == DealCount(results)
    IN  IF total = 0
        THEN [tick |-> tick, num_sessions |-> 0, deals_made |-> 0,
              fail_rate |-> 0, liquidity |-> 0]
        ELSE [tick |-> tick, num_sessions |-> total, deals_made |-> deal_count,
              fail_rate |-> RoundDiv((total - deal_count) * 10000, total),
              liquidity |-> RoundDiv(deal_count * 10000, total)]

\* ---------------------------------------------------------- compute_metrics
_empty_metrics ==
    [total_negotiations |-> 0, deals_made |-> 0, deal_success_rate |-> 0,
     budget_violation_attempts |-> 0, cost_violation_attempts |-> 0,
     deadlock_rate |-> 0, timeouts |-> 0, total_risk_events |-> 0]

\* all_risk: the risk events of all results, in order.
RECURSIVE all_risk_from(_, _)
all_risk_from(results, i) ==
    IF i > Len(results) THEN <<>>
    ELSE results[i].risk_events \o all_risk_from(results, i + 1)

compute_metrics(results) ==
    IF results = <<>> THEN _empty_metrics
    ELSE LET total == Len(results)
             deal_count == DealCount(results)
             all_risk == all_risk_from(results, 1)
             timeouts == Cardinality({i \in 1..total :
                                         results[i].termination_reason = TIMEOUT})
         IN  [total_negotiations |-> total, deals_made |-> deal_count,
              deal_success_rate |-> RoundDiv(deal_count * 10000, total),
              budget_violation_attempts |->
                  Cardinality({j \in 1..Len(all_risk) :
                                  all_risk[j].violation_type = "budget"}),
              cost_violation_attempts |->
                  Cardinality({j \in 1..Len(all_risk) :
                                  all_risk[j].violation_type = "cost"}),
              deadlock_rate |-> RoundDiv(timeouts * 10000, total),
              timeouts |-> timeouts, total_risk_events |-> Len(all_risk)]

\* ------------------------------------------ the aggregators called directly
\* A list of up to MaxResults results, among them a deal, a refusal with a
\* budget or a cost violation on record and a timeout, is handed to
\* compute_tick_stats and to compute_metrics.
MaxResults == 3

ResultSamples ==
    {_settle(BuyerState(400, 400), SellerState(160), 300, 2, ACCEPTED)
         @@ [risk_events |-> <<>>],
     _build_result(FALSE, None, 1, REJECTED, 0, 0)
         @@ [risk_events |-> <<[violation_type |-> "budget"]>>],
     _build_result(FALSE, None, 2, REJECTED, 0, 0)
         @@ [risk_events |-> <<[violation_type |-> "cost"]>>],
     _build_result(FALSE, None, 3, TIMEOUT, 0, 0) @@ [risk_events |-> <<>>]}

MetricsInit ==
    /\ probe \in {[used |-> TRUE, kind |-> "metrics", results |-> rs, tick |-> t,
                   stats |-> <<>>, metrics |-> <<>>] :
                  rs \in UNION {[1..n -> ResultSamples] : n \in 0..MaxResults},
                  t \in 0..1}
    /\ pc = "metrics"
    /\ cfg = NoCfg
    /\ sim = NoSim
    /\ clock = 0
    /\ rngs = <<>>
    /\ buyer = BuyerState(0, 0)
    /\ seller = SellerState(0)
    /\ min_price = 0
    /\ max_price = 0
    /\ max_rounds = 0
    /\ round_num = 0
    /\ current_round = 0
    /\ last_offer = None
    /\ transcript = <<>>
    /\ risk_events = <<>>
    /\ is_complete = FALSE
    /\ result = NoResult
    /\ decided = <<>>
    /\ returned = <<>>

\* compute_tick_stats(tick, results)
CallComputeTickStats ==
    /\ pc = "metrics"
    /\ probe.stats = <<>>
    /\ probe' = [probe EXCEPT !.stats = <<compute_tick_stats(probe.tick, probe.results)>>]
    /\ UNCHANGED <<sessionVars, simVars>>

\* compute_metrics(results)
CallComputeMetrics ==
    /\ pc = "metrics"
    /\ probe.metrics = <<>>
    /\ probe' = [probe EXCEPT !.metrics = <<compute_metrics(probe.results)>>]
    /\ UNCHANGED <<sessionVars, simVars>>

MetricsNext ==
    \/ CallComputeTickStats
    \/ CallComputeMetrics

MetricsSpec == MetricsInit /\ [][MetricsNext]_vars

\* --------------------------------------------------------- MarketSimulator
MaxSeed == 1
MaxSteps == 2
MaxPop == 2
MaxClock == 1

Runs == {1, 2}

\* The MarketConfig of the model: amounts on a grid of 80 cents.
MarketCfg ==
    [amount_step |-> 80, margin_step |-> 10,
     buyer_value_min |-> 240, buyer_value_max |-> 400,
     buyer_budget_min |-> 320, buyer_budget_max |-> 480,
     seller_cost_min |-> 160, seller_cost_max |-> 400,
     seller_margin_min |-> 5, seller_margin_max |-> 25,
     buyer_patience_min |-> 3, buyer_patience_max |-> 10,
     seller_patience_min |-> 3, seller_patience_max |-> 10,
     item_ref_price_min |-> 240, item_ref_price_max |-> 400,
     num_item_types |-> 2]

\* The ShockConfig: the probability is out of RngMod, multipliers per cent.
ShockCfg(enabled) ==
    [enabled |-> enabled, shock_probability |-> RngMod \div 2,
     demand_multiplier_min |-> 80, demand_multiplier_max |-> 120,
     supply_multiplier_min |-> 80, supply_multiplier_max |-> 120,
     multiplier_step |-> 20]

\* A FixedScenarioConfig with lists and scalars, in thousandths.
FixedCfg ==
    [buyer_value |-> <<2400, 4000>>, buyer_budget |-> <<4000>>,
     buyer_patience |-> <<5000>>, seller_cost |-> <<1600, 3200, 4000>>,
     seller_target_margin |-> <<150>>, seller_patience |-> <<5000>>,
     item_reference_price |-> <<3200>>, selection |-> "cycle"]

\* NegotiationConfig: the default price bounds, in cents.
NegotiationCfg(rounds) == [max_rounds |-> rounds, min_price |-> 100, max_price |-> 50000]

\* Rule-based agents on both sides.  The loader checks no count, so a
\* population of 0 is a configuration a run can be given.
SimulationConfigs ==
    {[used |-> TRUE, seed |-> sd, steps |-> st, buyers_per_step |-> nb,
      sellers_per_step |-> ns, mode |-> md, scenario_mode |-> sc,
      market |-> MarketCfg, negotiation |-> NegotiationCfg(mr),
      shock |-> ShockCfg(sh), fixed |-> FixedCfg,
      buyer_agent_type |-> "rule_based", seller_agent_type |-> "rule_based",
      llm |-> [model |-> "garbled"], memory_k |-> 2] :
     sd \in 0..MaxSeed, st \in 1..MaxSteps, nb \in 0..MaxPop, ns \in 0..MaxPop,
     md \in {"session", "market"}, sc \in {"distribution", "fixed"},
     mr \in {1, 3}, sh \in BOOLEAN}

\* Every agent type on either side, with either language model.
AgentConfigs ==
    {[used |-> TRUE, seed |-> sd, steps |-> MaxSteps, buyers_per_step |-> MaxPop,
      sellers_per_step |-> MaxPop, mode |-> "market", scenario_mode |-> sc,
      market |-> MarketCfg, negotiation |-> NegotiationCfg(3),
      shock |-> ShockCfg(FALSE), fixed |-> FixedCfg,
      buyer_agent_type |-> bt, seller_agent_type |-> st,
      llm |-> [model |-> lm], memory_k |-> 2] :
     sd \in 0..MaxSeed, sc \in {"distribution", "fixed"},
     bt \in AgentTypes, st \in AgentTypes, lm \in LlmModels}

NoSimulator ==
    [phase |-> "unbuilt", rng |-> SeededRNG(0), run_dir |-> <<>>, catalog |-> <<>>,
     step |-> 0, step_rng |-> SeededRNG(0), buyers |-> <<>>, sellers |-> <<>>,
     pairs |-> <<>>, next_pair |-> 1, tick_results |-> <<>>, results |-> <<>>,
     tick_stats |-> <<>>, match_in |-> [buyers |-> <<>>, sellers |-> <<>>],
     shock_in |-> [buyers |-> <<>>, sellers |-> <<>>, rng |-> SeededRNG(0),
                   left_buyers |-> <<>>, left_sellers |-> <<>>],
     buyer_memory |-> MemoryStore(1), seller_memory |-> MemoryStore(1),
     events |-> <<>>, alone |-> <<>>, summary |-> <<>>]

\* Two simulators are about to be constructed from the same configuration,
\* each with its own SeededRNG(cfg.seed).
TwinInit ==
    /\ cfg \in {c \in SimulationConfigs :
                  c.buyers_per_step >= 1 /\ c.sellers_per_step >= 1}
    /\ sim = [k \in Runs |-> [NoSimulator EXCEPT !.rng = SeededRNG(cfg.seed)]]
    /\ clock = 0
    /\ rngs = <<>>
    /\ probe = NoProbe
    /\ buyer = BuyerState(0, 0)
    /\ seller = SellerState(0)
    /\ min_price = 0
    /\ max_price = 0
    /\ max_rounds = 0
    /\ pc = "sim"
    /\ round_num = 0
    /\ current_round = 0
    /\ last_offer = None
    /\ transcript = <<>>
    /\ risk_events = <<>>
    /\ is_complete = FALSE
    /\ result = NoResult
    /\ decided = <<>>
    /\ returned = <<>>

SimFrame == UNCHANGED <<sessionVars, probe, cfg, rngs>>

\* Time passes.
ClockTick ==
    /\ pc = "sim"
    /\ clock < MaxClock
    /\ clock' = clock + 1
    /\ UNCHANGED sim
    /\ SimFrame

\* MarketSimulator.__init__: the run directory is named after the clock and
\* the seed, the catalog is built with the generator handed in.
SimConstruct(k) ==
    /\ pc = "sim"
    /\ sim[k].phase = "unbuilt"
    /\ LET c == Catalog(sim[k].rng, cfg)
       IN  sim' = [sim EXCEPT ![k] = [@ EXCEPT !.phase = "loop",
                                                !.run_dir = <<clock, cfg.seed>>,
                                                !.buyer_memory = MemoryStore(cfg.memory_k),
                                                !.seller_memory = MemoryStore(cfg.memory_k),
                                                !.catalog = c.items,
                                                !.rng = c.rng]]
    /\ UNCHANGED clock
    /\ SimFrame

\* for step in range(cfg.steps): step_rng = self.rng.fork()
SimFork(k) ==
    /\ pc = "sim"
    /\ sim[k].phase = "loop"
    /\ in_range(sim[k].step, cfg.steps)
    /\ LET f == fork(sim[k].rng)
       IN  sim' = [sim EXCEPT ![k] = [@ EXCEPT !.phase = "forked",
                                                !.rng = f.parent,
                                                !.step_rng = f.child,
                                                !.tick_results = <<>>]]
    /\ UNCHANGED clock
    /\ SimFrame

SimGenerateBuyers(k) ==
    /\ pc = "sim"
    /\ sim[k].phase = "forked"
    /\ LET g == generate_buyers(sim[k].step_rng, cfg.buyers_per_step, sim[k].step, cfg)
       IN  sim' = [sim EXCEPT ![k] = [@ EXCEPT !.phase = "buyers",
                                                !.buyers = g.list,
                                                !.step_rng = g.rng]]
    /\ UNCHANGED clock
    /\ SimFrame

SimGenerateSellers(k) ==
    /\ pc = "sim"
    /\ sim[k].phase = "buyers"
    /\ LET g == generate_sellers(sim[k].step_rng, cfg.sellers_per_step, sim[k].step, cfg)
       IN  sim' = [sim EXCEPT ![k] = [@ EXCEPT !.phase = "sellers",
                                                !.sellers = g.list,
                                                !.step_rng = g.rng]]
    /\ UNCHANGED clock
    /\ SimFrame

\* buyers, sellers = apply_shocks(...).  shock_in is history: what the call
\* was handed, and the lists handed in as the call left them.
SimApplyShocks(k) ==
    /\ pc = "sim"
    /\ sim[k].phase = "sellers"
    /\ LET a == apply_shocks(sim[k].buyers, sim[k].sellers, sim[k].step_rng, cfg.shock)
       IN  sim' = [sim EXCEPT ![k] = [@ EXCEPT !.phase = "shocked",
                                                !.buyers = a.buyers,
                                                !.sellers = a.sellers,
                                                !.step_rng = a.rng,
                                                !.shock_in =
                                                    [buyers |-> sim[k].buyers,
                                                     sellers |-> sim[k].sellers,
                                                     rng |-> sim[k].step_rng,
                                                     left_buyers |-> a.given_buyers,
                                                     left_sellers |-> a.given_sellers]]]
    /\ UNCHANGED clock
    /\ SimFrame

\* match_in is history: the lists as they were handed to the matcher.  An
\* exception of the matcher is caught nowhere: it ends run() in the tick.
SimMatch(k) ==
    /\ pc = "sim"
    /\ sim[k].phase = "shocked"
    /\ LET m == match(sim[k].buyers, sim[k].sellers, sim[k].catalog, sim[k].step_rng)
       IN  sim' = [sim EXCEPT ![k] = [@ EXCEPT !.phase = IF m.raised THEN "crashed"
                                                         ELSE "matched",
                                                !.pairs = m.pairs,
                                                !.next_pair = 1,
                                                !.step_rng = m.rng,
                                                !.buyers = m.buyers,
                                                !.sellers = m.sellers,
                                                !.match_in =
                                                    [buyers |-> sim[k].buyers,
                                                     sellers |-> sim[k].sellers]]]
    /\ UNCHANGED clock
    /\ SimFrame

\* An entry of the history of calls: session.run() or record_outcome on the
\* agent of a side, with the index of the result in self.results.
Event(op, side, index, res) == [op |-> op, side |-> side, index |-> index, result |-> res]

\* Mutant: only the buyer's agent is fed.
record_outcomes_buyer_only(sm, buyer_agent, seller_agent, res, index) ==
    LET b == has_record_outcome(buyer_agent)
    IN  [buyer_memory |-> IF b THEN record_outcome(sm.buyer_memory, res)
                          ELSE sm.buyer_memory,
         seller_memory |-> sm.seller_memory,
         events |-> sm.events
                    \o (IF b THEN <<Event("record_outcome", BUYER, index, res)>>
                        ELSE <<>>)]

\* "feed memory agents": record_outcome on each agent that has it, the
\* buyer's first.  A memory agent's store is the simulator's store of its role.
record_outcomes(sm, buyer_agent, seller_agent, res, index) ==
    LET b == has_record_outcome(buyer_agent)
        s == has_record_outcome(seller_agent)
    IN  [buyer_memory |-> IF b THEN record_outcome(sm.buyer_memory, res)
                          ELSE sm.buyer_memory,
         seller_memory |-> IF s THEN record_outcome(sm.seller_memory, res)
                           ELSE sm.seller_memory,
         events |-> sm.events
                    \o (IF b THEN <<Event("record_outcome", BUYER, index, res)>>
                        ELSE <<>>)
                    \o (IF s THEN <<Event("record_outcome", SELLER, index, res)>>
                        ELSE <<>>)]

\* The session of a pair in a simulator sm.
pair_session(sm, pair, step) ==
    NegotiationSession(_create_agent(cfg.buyer_agent_type, BUYER, sm, cfg.llm),
                       _create_agent(cfg.seller_agent_type, SELLER, sm, cfg.llm),
                       pair.buyer, pair.seller, pair.item, cfg.negotiation, step)

\* One pair of the tick: two fresh agents, the session, the result kept, the
\* agents fed.  events and alone are history: the calls made, and what the
\* same session yields in a simulator that has run no session before.
SimSession(k) ==
    /\ pc = "sim"
    /\ sim[k].phase = "matched"
    /\ sim[k].next_pair <= Len(sim[k].pairs)
    /\ LET pair == sim[k].pairs[sim[k].next_pair]
           se == pair_session(sim[k], pair, sim[k].step)
           res == run(se)
           index == Len(sim[k].results) + 1
           ran == [sim[k] EXCEPT !.events = Append(@, Event("run", "session", index, res))]
           fed == record_outcomes(ran, se.buyer_agent, se.seller_agent, res, index)
           fresh == [sim[k] EXCEPT !.buyer_memory = MemoryStore(cfg.memory_k),
                                   !.seller_memory = MemoryStore(cfg.memory_k)]
       IN  sim' = [sim EXCEPT ![k] = [@ EXCEPT !.next_pair = @ + 1,
                                                !.tick_results = Append(@, res),
                                                !.results = Append(@, res),
                                                !.buyer_memory = fed.buyer_memory,
                                                !.seller_memory = fed.seller_memory,
                                                !.events = fed.events,
                                                !.alone = Append(@,
                                                    run(pair_session(fresh, pair,
                                                                     sim[k].step)))]]
    /\ UNCHANGED clock
    /\ SimFrame

\* The pairs of the tick are done: tick statistics in market mode.
SimTickEnd(k) ==
    /\ pc = "sim"
    /\ sim[k].phase = "matched"
    /\ sim[k].next_pair > Len(sim[k].pairs)
    /\ sim' = [sim EXCEPT ![k] =
                  [@ EXCEPT !.phase = "loop",
                            !.step = @ + 1,
                            !.tick_stats =
                                IF cfg.mode = "market" /\ sim[k].tick_results # <<>>
                                THEN Append(@, compute_tick_stats(sim[k].step,
                                                                  sim[k].tick_results))
                                ELSE @]]
    /\ UNCHANGED clock
    /\ SimFrame

\* The loop over the ticks is exhausted: the summary is computed and
\* written, run() returns self.results.
SimFinish(k) ==
    /\ pc = "sim"
    /\ sim[k].phase = "loop"
    /\ ~in_range(sim[k].step, cfg.steps)
    /\ sim' = [sim EXCEPT ![k] = [@ EXCEPT !.phase = "done",
                                            !.summary = <<compute_metrics(sim[k].results)>>]]
    /\ UNCHANGED clock
    /\ SimFrame

TwinNext ==
    \/ ClockTick
    \/ \E k \in Runs : SimConstruct(k)
    \/ \E k \in Runs : SimFork(k)
    \/ \E k \in Runs : SimGenerateBuyers(k)
    \/ \E k \in Runs : SimGenerateSellers(k)
    \/ \E k \in Runs : SimApplyShocks(k)
    \/ \E k \in Runs : SimMatch(k)
    \/ \E k \in Runs : SimSession(k)
    \/ \E k \in Runs : SimTickEnd(k)
    \/ \E k \in Runs : SimFinish(k)

TwinSpec == TwinInit /\ [][TwinNext]_vars

\* ------------------------------------------------------------- one run
\* One simulator is constructed and run, with any of the configurations and
\* agents of any supported type; the second simulator is not used.
MarketInit ==
    /\ cfg \in SimulationConfigs \cup AgentConfigs
    /\ sim = [k \in Runs |->
                 IF k = 1 THEN [NoSimulator EXCEPT !.rng = SeededRNG(cfg.seed)]
                 ELSE [NoSimulator EXCEPT !.phase = "done"]]
    /\ clock = 0
    /\ rngs = <<>>
    /\ probe = NoProbe
    /\ buyer = BuyerState(0, 0)
    /\ seller = SellerState(0)
    /\ min_price = 0
    /\ max_price = 0
    /\ max_rounds = 0
    /\ pc = "sim"
    /\ round_num = 0
    /\ current_round = 0
    /\ last_offer = None
    /\ transcript = <<>>
    /\ risk_events = <<>>
    /\ is_complete = FALSE
    /\ result = NoResult
    /\ decided = <<>>
    /\ returned = <<>>

MarketSpec == MarketInit /\ [][TwinNext]_vars

\* ------------------------------------------ configurations never checked
\* _dict_to_config copies whatever values the file holds and
\* MarketSimulator.__init__ reads them as they are: nothing compares
\* min_price with max_price or a count with 0.  One simulator is built and
\* run on a sound configuration or on one with a single value out of order.
SoundConfigs ==
    {[used |-> TRUE, seed |-> sd, steps |-> MaxSteps, buyers_per_step |-> MaxPop,
      sellers_per_step |-> MaxPop, mode |-> "market", scenario_mode |-> sc,
      market |-> MarketCfg, negotiation |-> NegotiationCfg(3),
      shock |-> ShockCfg(FALSE), fixed |-> FixedCfg,
      buyer_agent_type |-> "rule_based", seller_agent_type |-> "rule_based",
      llm |-> [model |-> "garbled"], memory_k |-> 2] :
     sd \in 0..MaxSeed, sc \in {"distribution", "fixed"}}

LoadedConfigs ==
    SoundConfigs
    \cup {[c EXCEPT !.negotiation.min_price = c.negotiation.max_price,
                    !.negotiation.max_price = c.negotiation.min_price] :
             c \in SoundConfigs}
    \cup {[c EXCEPT !.steps = n] : c \in SoundConfigs, n \in {-1, 0}}
    \cup {[c EXCEPT !.buyers_per_step = n] : c \in SoundConfigs, n \in {-1, 0}}
    \cup {[c EXCEPT !.sellers_per_step = n] : c \in SoundConfigs, n \in {-1, 0}}
    \cup {[c EXCEPT !.negotiation.max_rounds = n] : c \in SoundConfigs, n \in {-1, 0}}
    \cup {[c EXCEPT !.market.num_item_types = n] : c \in SoundConfigs, n \in {-1, 0}}

ConfigInit ==
    /\ cfg \in LoadedConfigs
    /\ sim = [k \in Runs |->
                 IF k = 1 THEN [NoSimulator EXCEPT !.rng = SeededRNG(cfg.seed)]
                 ELSE [NoSimulator EXCEPT !.phase = "done"]]
    /\ clock = 0
    /\ rngs = <<>>
    /\ probe = NoProbe
    /\ buyer = BuyerState(0, 0)
    /\ seller = SellerState(0)
    /\ min_price = 0
    /\ max_price = 0
    /\ max_rounds = 0
    /\ pc = "sim"
    /\ round_num = 0
    /\ current_round = 0
    /\ last_offer = None
    /\ transcript = <<>>
    /\ risk_events = <<>>
    /\ is_complete = FALSE
    /\ result = NoResult
    /\ decided = <<>>
    /\ returned = <<>>

ConfigSpec == ConfigInit /\ [][TwinNext]_vars

\* ------------------------------------------- a session of two rule agents
\* NegotiationSession.run with a RuleBasedAgent on each side, round by
\* round: the action of a round is what the agent of the role decides on
\* the context run() builds for it.  Amounts are cents, margins are
\* ten-thousandths (0 stands for a margin left unset).
MaxRuleRounds == 5

\* The context of the round about to be played (run(), "select active agent").
RuleContext ==
    IF RoleOf(round_num) = BUYER
    THEN AgentContext(BUYER, round_num, max_rounds, last_offer, buyer.value,
                      buyer.budget, None)
    ELSE AgentContext(SELLER, round_num, max_rounds, last_offer, seller.cost,
                      None, seller.target_margin)

RuleInit ==
    /\ buyer \in {BuyerState(v, b) :
                   v \in {100, 5000, 10000, 12000}, b \in {0, 8000, 13000}}
    /\ seller \in {SellerState(c) @@ [target_margin |-> m] :
                    c \in {50, 4000, 6000, 7000, 9900, 10000},
                    m \in {0, 500, 1500, 3000, 20000}}
    /\ min_price = 100
    /\ max_price \in {11000, 50000}
    /\ max_rounds \in 0..MaxRuleRounds
    /\ pc = "init"
    /\ round_num = 0
    /\ current_round = 0
    /\ last_offer = None
    /\ transcript = <<>>
    /\ risk_events = <<>>
    /\ is_complete = FALSE
    /\ result = NoResult
    /\ decided = <<>>
    /\ returned = <<>>
    /\ probe = NoProbe
    /\ cfg = NoCfg
    /\ sim = NoSim
    /\ clock = 0
    /\ rngs = <<>>

\* action = agent.decide(ctx) and the rest of the iteration.
RuleRound == Round(decide(RuleContext))

RuleNext ==
    \/ RunStart
    \/ RuleRound
    \/ Timeout

RuleSpec == RuleInit /\ [][RuleNext]_vars

\* ------------------------------------------- the legacy run_negotiation
\* protocol.run_negotiation, the function the session class replaces, from
\* round r on.  g holds its arguments and the actions the agents return,
\* g.decisions[r + 1] being the decision of round r; history, risk_events
\* and last_offer are its local variables.  starved: the function asked for
\* a decision beyond those given.
RECURSIVE run_negotiation_from(_, _, _, _, _)
run_negotiation_from(g, r, last, history, risks) ==
    IF r >= g.max_rounds
    THEN [starved |-> FALSE, history |-> history, risk_events |-> risks,
          result |-> [deal_made |-> FALSE, deal_price |-> None,
                      termination_reason |-> TIMEOUT, rounds_taken |-> g.max_rounds,
                      buyer_surplus |-> 0, seller_surplus |-> 0]]
    ELSE IF r + 1 > Len(g.decisions)
    THEN [starved |-> TRUE, history |-> history, risk_events |-> risks,
          result |-> NoResult]
    ELSE LET current_role == IF r % 2 = 0 THEN BUYER ELSE SELLER
             decided_action == g.decisions[r + 1]
             a1 == IF r = 0 /\ decided_action.action = COUNTER
                   THEN NegotiationAction(OFFER, decided_action.offer_price,
                                          decided_action.message_public)
                   ELSE decided_action
             fallback_price == IF current_role = BUYER THEN buyer_fallback(g.buyer)
                               ELSE seller_fallback(g.seller)
             a2 == IF r = 0 /\ a1.action \in {ACCEPT, REJECT}
                   THEN NegotiationAction(OFFER,
                            IF Truthy(a1.offer_price) THEN a1.offer_price
                            ELSE fallback_price,
                            OPENING_MSG)
                   ELSE a1
             validation == validate_action(current_role, a2, g.buyer, g.seller, last,
                                           g.min_price, g.max_price)
             risks2 == IF validation.valid THEN risks
                       ELSE Append(risks, RiskEvent(r, current_role, validation, a2))
             action == IF validation.valid THEN a2
                       ELSE NegotiationAction(REJECT, None, CANNOT_CONTINUE_MSG)
             history2 == Append(history, NegotiationTurn(r, current_role, action))
         IN  IF action.action = ACCEPT
             THEN [starved |-> FALSE, history |-> history2, risk_events |-> risks2,
                   result |-> [deal_made |-> TRUE, deal_price |-> last,
                               termination_reason |-> ACCEPTED, rounds_taken |-> r + 1,
                               buyer_surplus |-> IF Truthy(last) THEN g.buyer.value - last
                                                 ELSE 0,
                               seller_surplus |-> IF Truthy(last) THEN last - g.seller.cost
                                                  ELSE 0]]
             ELSE IF action.action = REJECT
             THEN [starved |-> FALSE, history |-> history2, risk_events |-> risks2,
                   result |-> [deal_made |-> FALSE, deal_price |-> None,
                               termination_reason |-> REJECTED, rounds_taken |-> r + 1,
                               buyer_surplus |-> 0, seller_surplus |-> 0]]
             ELSE run_negotiation_from(g, r + 1,
                      IF action.offer_price # None THEN action.offer_price ELSE last,
                      history2, risks2)

run_negotiation(g) == run_negotiation_from(g, 0, None, <<>>, <<>>)

\* A session has run; run_negotiation is then called with the same buyer,
\* seller, bounds and max_rounds, its agents returning what the agents of
\* the session returned, in that order.
CallRunNegotiation ==
    /\ pc = "done"
    /\ ~probe.used
    /\ probe' = [used |-> TRUE, kind |-> "legacy",
                 out |-> run_negotiation([buyer |-> buyer, seller |-> seller,
                                          max_rounds |-> max_rounds,
                                          min_price |-> min_price,
                                          max_price |-> max_price,
                                          decisions |-> decided])]
    /\ UNCHANGED <<sessionVars, simVars>>

LegacyNext ==
    \/ RunStart
    \/ DecideOffer
    \/ DecideCounter
    \/ DecideAccept
    \/ DecideReject
    \/ Timeout
    \/ CallRunNegotiation

LegacySpec == Init /\ [][LegacyNext]_vars

\* ------------------------------------------------- decide called directly
\* An agent of any type the simulator creates is asked once for a decision,
\* in the first, a middle or the last round, with a language model that
\* answers after an outage of up to MaxOutage failed requests.
MaxOutage == 2
MaxRetries == 2

DecideContexts ==
    {AgentContext(BUYER, r, 3, l, v, 320, None) :
        r \in 0..2, l \in {None, 200, 320}, v \in {240, 400}}
    \cup {AgentContext(SELLER, r, 3, l, c, None, 1500) :
        r \in 0..2, l \in {None, 200, 320}, c \in {160, 320}}

DecideStores ==
    {MemoryStore(2),
     record_outcome(MemoryStore(2),
                    _settle(BuyerState(400, 400), SellerState(160), 300, 2, ACCEPTED)
                        @@ [item_id |-> 1])}

DecideInit ==
    /\ probe \in {[used |-> TRUE, kind |-> "decide",
                   agent |-> [type |-> t, model |-> m,
                              memory |-> IF t = "memory" THEN s ELSE MemoryStore(1)],
                   ctx |-> c, outage |-> o, max_retries |-> n, outcome |-> <<>>] :
                  t \in AgentTypes, m \in LlmModels, s \in DecideStores,
                  c \in DecideContexts, o \in 0..MaxOutage, n \in 1..MaxRetries}
    /\ pc = "decide"
    /\ cfg = NoCfg
    /\ sim = NoSim
    /\ clock = 0
    /\ rngs = <<>>
    /\ buyer = BuyerState(0, 0)
    /\ seller = SellerState(0)
    /\ min_price = 0
    /\ max_price = 0
    /\ max_rounds = 0
    /\ round_num = 0
    /\ current_round = 0
    /\ last_offer = None
    /\ transcript = <<>>
    /\ risk_events = <<>>
    /\ is_complete = FALSE
    /\ result = NoResult
    /\ decided = <<>>
    /\ returned = <<>>

\* action = agent.decide(ctx)
CallDecide ==
    /\ pc = "decide"
    /\ probe.outcome = <<>>
    /\ probe' = [probe EXCEPT !.outcome =
                     <<decide_call(probe.agent, probe.ctx, 1, probe.outage,
                                   probe.max_retries)>>]
    /\ UNCHANGED <<sessionVars, simVars>>

DecideNext == CallDecide

DecideSpec == DecideInit /\ [][DecideNext]_vars

\* ================================================================= claims
Last(seq) == seq[Len(seq)]
Reason == result.termination_reason

\* C1: an ACCEPTED result has a deal price between the seller's cost and the
\* smaller of the buyer's value and budget.
C1_AcceptedPriceFeasible ==
    Reason = ACCEPTED =>
        /\ result.deal_price # None
        /\ seller.cost <= result.deal_price
        /\ result.deal_price <= Min(buyer.value, buyer.budget)

\* A deal at the only feasible price, the budget being the binding ceiling.
C1_Witness ==
    /\ Reason = ACCEPTED
    /\ buyer.budget < buyer.value
    /\ result.deal_price = buyer.budget
    /\ result.deal_price = seller.cost

\* C2: for every completed session rounds_taken lies in [1, max_rounds] and
\* turn i of the transcript is the buyer's when i is even, the seller's when
\* i is odd.
C2_RoundsAndRoles ==
    is_complete =>
        /\ result.rounds_taken \in 1..max_rounds
        /\ \A i \in 1..Len(transcript) :
               transcript[i].agent_role = (IF (i - 1) % 2 = 0 THEN BUYER ELSE SELLER)

\* C3: the deal price of a session ACCEPTED at round r is the price offered
\* by the opposite role in turn r-1, whatever price the ACCEPT carried.
C3_DealPriceIsOpponentsOffer ==
    Reason = ACCEPTED =>
        LET n == result.rounds_taken
        IN  /\ n >= 2
            /\ Len(transcript) = n
            /\ transcript[n].action.action = ACCEPT
            /\ transcript[n - 1].action.action \in {OFFER, COUNTER}
            /\ transcript[n - 1].agent_role # transcript[n].agent_role
            /\ result.deal_price = transcript[n - 1].action.offer_price

\* An accept in round 2 that carries a price of its own, after the acceptor
\* opened with yet another price.
C3_Witness ==
    /\ Reason = ACCEPTED
    /\ result.rounds_taken = 3
    /\ Last(decided).offer_price \notin {None, result.deal_price}
    /\ transcript[1].action.offer_price # result.deal_price

\* C4: run() returns after at most max_rounds decide calls, whatever the
\* agents return, and the termination reason is ACCEPTED, REJECTED or TIMEOUT.
C4_SessionCompletes ==
    /\ [](Len(decided) <= max_rounds)
    /\ [](is_complete => Reason \in {ACCEPTED, REJECTED, TIMEOUT})
    /\ <>is_complete

\* A session that used all its rounds, and one cut short by an illegal action.
C4_Witness ==
    /\ is_complete
    /\ max_rounds = MaxRoundsBound
    /\ Len(decided) = max_rounds
    /\ risk_events # <<>>

\* C6: when the buyer's ceiling is below the seller's cost the session never
\* ends ACCEPTED: no deal, and it ends REJECTED or TIMEOUT.
C6_InfeasibleNeverAccepted ==
    Min(buyer.value, buyer.budget) < seller.cost =>
        /\ Reason # ACCEPTED
        /\ ~result.deal_made
        /\ is_complete => Reason \in {REJECTED, TIMEOUT}

\* An infeasible pair where an agent tried to accept a standing offer.
C6_Witness ==
    /\ Min(buyer.value, buyer.budget) < seller.cost
    /\ is_complete
    /\ Len(decided) >= 2
    /\ Last(decided).action = ACCEPT

ProbedEnforce == probe.used /\ probe.called = "enforce"
ProbedValidate == probe.used /\ probe.called = "validate"
OverBudgetOffer ==
    /\ probe.role = BUYER
    /\ probe.action.action \in {OFFER, COUNTER}
    /\ probe.action.offer_price # None
    /\ probe.action.offer_price > buyer.budget

\* C7 (as stated): a buyer OFFER or COUNTER priced above the budget is
\* replaced by REJECT with exactly one risk event, of kind "budget".
C7_OverBudgetIsBudgetViolation ==
    (ProbedEnforce /\ OverBudgetOffer) =>
        /\ probe.enf.action.action = REJECT
        /\ Len(probe.enf.risk_event) = 1
        /\ probe.enf.risk_event[1].violation_type = "budget"

\* C7 (amended): a buyer OFFER or COUNTER priced above the budget is replaced
\* by REJECT with exactly one risk event; its kind is "budget" when the price
\* lies within [min_price, max_price] and "bounds" when it does not.
C7_OverBudgetRejected ==
    (ProbedEnforce /\ OverBudgetOffer) =>
        /\ probe.enf.action.action = REJECT
        /\ Len(probe.enf.risk_event) = 1
        /\ probe.enf.risk_event[1].violation_type =
               (IF /\ min_price <= probe.action.offer_price
                   /\ probe.action.offer_price <= max_price
                THEN "budget" ELSE "bounds")

\* An over-budget counter inside the global bounds, judged after round 0.
C7_Witness ==
    /\ ProbedEnforce
    /\ OverBudgetOffer
    /\ probe.action.action = COUNTER
    /\ round_num > 0
    /\ probe.action.offer_price <= max_price
    /\ probe.enf.risk_event # <<>>

\* C8: for OFFER/COUNTER, validate reports the first failing rule in the order
\* price present, global bounds (inclusive), buyer budget/value, seller cost,
\* and the action is valid exactly when no rule fails.
C8_OfferRulesInOrder ==
    (ProbedValidate /\ probe.action.action \in {OFFER, COUNTER}) =>
        LET price == probe.action.offer_price
            missing == price = None
            outside == price < min_price \/ price > max_price
            overBuyer == probe.role = BUYER
                         /\ (price > buyer.budget \/ price > buyer.value)
            underCost == probe.role = SELLER /\ price < seller.cost
        IN  /\ missing => ~probe.val.valid
            /\ (~missing /\ outside) =>
                   (~probe.val.valid /\ probe.val.violation_type = "bounds")
            /\ (~missing /\ ~outside /\ overBuyer) =>
                   (~probe.val.valid /\ probe.val.violation_type = "budget")
            /\ (~missing /\ ~outside /\ ~overBuyer /\ underCost) =>
                   (~probe.val.valid /\ probe.val.violation_type = "cost")
            /\ probe.val.valid <=>
                   (~missing /\ ~outside /\ ~overBuyer /\ ~underCost)

\* A valid offer priced exactly at a global bound.
C8_Witness ==
    /\ ProbedValidate
    /\ probe.action.action \in {OFFER, COUNTER}
    /\ probe.action.offer_price \in {min_price, max_price}
    /\ probe.val.valid

\* C9: for ACCEPT, validate fails with "logic" when no offer is pending, with
\* "budget" when a buyer accepts above budget or value, with "cost" when a
\* seller accepts below cost, and succeeds otherwise.
C9_AcceptRules ==
    (ProbedValidate /\ probe.action.action = ACCEPT) =>
        IF last_offer = None
        THEN ~probe.val.valid /\ probe.val.violation_type = "logic"
        ELSE IF probe.role = BUYER
                /\ (last_offer > buyer.budget \/ last_offer > buyer.value)
        THEN ~probe.val.valid /\ probe.val.violation_type = "budget"
        ELSE IF probe.role = SELLER /\ last_offer < seller.cost
        THEN ~probe.val.valid /\ probe.val.violation_type = "cost"
        ELSE probe.val.valid

\* A buyer's accept of an offer equal to its budget, which is legal.
C9_Witness ==
    /\ ProbedValidate
    /\ probe.action.action = ACCEPT
    /\ probe.role = BUYER
    /\ last_offer = buyer.budget
    /\ probe.val.valid

\* C10: REJECT is always legal (validate succeeds for every REJECT whatever
\* the role, the carried price and the last offer), so a REJECT returned by an
\* agent at a round > 0 ends the session REJECTED with no risk event for it.
C10_RejectAlwaysLegal ==
    /\ \A r \in AgentRole, p \in OptPrice, lo \in OptPrice :
           validate_action(r, NegotiationAction(REJECT, p, AGENT_MSG), buyer, seller,
                           lo, min_price, max_price).valid
    /\ (Len(decided) >= 2 /\ Last(decided).action = REJECT) =>
           /\ is_complete
           /\ Reason = REJECTED
           /\ Len(transcript) = Len(decided)
           /\ Last(transcript).action = Last(decided)
           /\ \A i \in 1..Len(risk_events) :
                  risk_events[i].round # Len(decided) - 1

\* An agent's REJECT in a later round that carries an out-of-bounds price.
C10_Witness ==
    /\ Len(decided) >= 2
    /\ Last(decided).action = REJECT
    /\ Last(decided).offer_price # None
    /\ Last(decided).offer_price > max_price
    /\ is_complete

\* The action enforce validated: the probed action, or at round 0 an OFFER.
ViolationKinds == {"logic", "bounds", "budget", "cost"}

\* C11: enforce returns either the action (corrected at round 0, unchanged
\* later) with no risk event, and that action is valid; or REJECT with no
\* price and the fixed message, with one risk event holding the round, the
\* role, and the kind, reason, type and price under which the attempted action
\* fails validation.
C11_EnforceContract ==
    ProbedEnforce =>
        LET e == probe.enf
        IN  IF e.risk_event = <<>>
            THEN /\ validate_action(probe.role, e.action, buyer, seller, last_offer,
                                    min_price, max_price).valid
                 /\ round_num > 0 => e.action = probe.action
                 /\ round_num = 0 => e.action.action = OFFER
            ELSE LET ev == e.risk_event[1]
                     attempted == NegotiationAction(ev.attempted_action,
                                                    ev.attempted_price, AGENT_MSG)
                     res == validate_action(probe.role, attempted, buyer, seller,
                                            last_offer, min_price, max_price)
                 IN  /\ Len(e.risk_event) = 1
                     /\ e.action = NegotiationAction(REJECT, None, CANNOT_CONTINUE_MSG)
                     /\ ev.round = round_num
                     /\ ev.role = probe.role
                     /\ ev.violation_type \in ViolationKinds
                     /\ ~res.valid
                     /\ ev.violation_type = res.violation_type
                     /\ ev.reason = res.reason
                     /\ round_num > 0 =>
                            /\ ev.attempted_action = probe.action.action
                            /\ ev.attempted_price = probe.action.offer_price
                     /\ round_num = 0 => ev.attempted_action = OFFER

\* An opening ACCEPT that carried a price, turned into an OFFER that fails.
C11_Witness ==
    /\ ProbedEnforce
    /\ round_num = 0
    /\ probe.action.action = ACCEPT
    /\ probe.action.offer_price # None
    /\ probe.enf.risk_event # <<>>
    /\ probe.enf.risk_event[1].attempted_price = probe.action.offer_price
    /\ probe.enf.action.offer_price = None

\* The action the first-round correction is said to produce.
CorrectionAsStated(a, role) ==
    IF a.action = COUNTER THEN NegotiationAction(OFFER, a.offer_price, AGENT_MSG)
    ELSE IF a.action \in {ACCEPT, REJECT}
    THEN NegotiationAction(OFFER,
                           IF a.offer_price # None THEN a.offer_price
                           ELSE IF role = BUYER THEN buyer_fallback(buyer)
                                                ELSE seller_fallback(seller),
                           AGENT_MSG)
    ELSE a

\* C12: at round 0 enforce judges a COUNTER as an OFFER of the same price, an
\* ACCEPT or REJECT as an OFFER of the price it carried or, when it carried
\* none, of the fallback price, and an OFFER as it is; at later rounds it
\* judges the action as it is.
C12_FirstRoundCorrection ==
    ProbedEnforce =>
        LET expected == IF round_num = 0
                        THEN CorrectionAsStated(probe.action, probe.role)
                        ELSE probe.action
            e == probe.enf
        IN  IF e.risk_event = <<>>
            THEN /\ e.action.action = expected.action
                 /\ e.action.offer_price = expected.offer_price
            ELSE /\ e.risk_event[1].attempted_action = expected.action
                 /\ e.risk_event[1].attempted_price = expected.offer_price

\* C13: a completed session ended TIMEOUT exactly when its transcript holds
\* max_rounds turns none of which is an ACCEPT or a REJECT; a TIMEOUT result
\* has no deal, no deal price and rounds_taken = max_rounds.
C13_TimeoutExactly ==
    is_complete =>
        /\ Reason = TIMEOUT <=>
               /\ Len(transcript) = max_rounds
               /\ \A i \in 1..Len(transcript) :
                      transcript[i].action.action \notin {ACCEPT, REJECT}
        /\ Reason = TIMEOUT =>
               /\ ~result.deal_made
               /\ result.deal_price = None
               /\ result.rounds_taken = max_rounds

\* A timeout after the longest session, the last turn being a legal counter.
C13_Witness ==
    /\ is_complete
    /\ Reason = TIMEOUT
    /\ max_rounds = MaxRoundsBound
    /\ Len(transcript) = max_rounds
    /\ Last(transcript).action.action = COUNTER

\* C14: on every deal buyer_surplus = buyer.value - deal_price and
\* seller_surplus = deal_price - seller.cost, whatever the feasible deal
\* price, and neither is negative.
C14_SurplusFormula ==
    result.deal_made =>
        /\ result.deal_price # None
        /\ result.buyer_surplus = buyer.value - result.deal_price
        /\ result.seller_surplus = result.deal_price - seller.cost
        /\ result.buyer_surplus >= 0
        /\ result.seller_surplus >= 0

\* C15: turn i of the transcript (counted from 0) has round_number i, so round
\* numbers are non-negative and strictly increasing, and once the session is
\* complete the transcript holds rounds_taken turns, whatever the reason.
C15_RoundNumbers ==
    /\ \A i \in 1..Len(transcript) : transcript[i].round_number = i - 1
    /\ \A i, j \in 1..Len(transcript) :
           i < j => transcript[i].round_number < transcript[j].round_number
    /\ is_complete => Len(transcript) = result.rounds_taken

\* A three-turn session ended by a REJECT the judge substituted.
C15_Witness ==
    /\ is_complete
    /\ Reason = REJECTED
    /\ Len(transcript) = 3
    /\ risk_events # <<>>
    /\ Last(decided).action # REJECT

\* The offer standing when turn i was judged: every earlier turn is an OFFER
\* or COUNTER, since an ACCEPT or REJECT ends the session.
StandingBefore(i) == IF i = 1 THEN None ELSE transcript[i - 1].action.offer_price

\* C16: every OFFER/COUNTER turn of the transcript carries a price within
\* [min_price, max_price], at most the buyer's budget and value when the buyer
\* made it and at least the seller's cost when the seller made it; every
\* recorded action passes validation against the offer standing before it;
\* and the last offer is None or the price of such a turn.
C16_RecordedOffersLegal ==
    /\ \A i \in 1..Len(transcript) :
           LET t == transcript[i]
               p == t.action.offer_price
           IN  /\ t.action.action \in {OFFER, COUNTER} =>
                      /\ p # None
                      /\ min_price <= p /\ p <= max_price
                      /\ t.agent_role = BUYER => (p <= buyer.budget /\ p <= buyer.value)
                      /\ t.agent_role = SELLER => p >= seller.cost
               /\ validate_action(t.agent_role, t.action, buyer, seller,
                                   StandingBefore(i), min_price, max_price).valid
    /\ last_offer # None =>
           \E i \in 1..Len(transcript) :
               /\ transcript[i].action.action \in {OFFER, COUNTER}
               /\ transcript[i].action.offer_price = last_offer
               /\ \A j \in (i + 1)..Len(transcript) :
                      transcript[j].action.action \notin {OFFER, COUNTER}

\* An illegal counter was tried on a standing offer: REJECT is recorded and
\* the standing offer stays.
C16_Witness ==
    /\ is_complete
    /\ Len(transcript) >= 2
    /\ last_offer # None
    /\ risk_events # <<>>
    /\ Last(risk_events).attempted_action = COUNTER
    /\ Last(risk_events).attempted_price # None
    /\ Last(transcript).action.action = REJECT

\* The lists a returned result holds now: _build_result stores the session's
\* own transcript and risk_events lists in the result, not copies.
HistoryOf(r) == transcript
RiskEventsOf(r) == risk_events

\* C17: a result run() has returned keeps the transcript and risk events it
\* had when it was returned (its deal price, rounds_taken and termination
\* reason cannot change), whatever is done with the session afterwards, a
\* second run() included.
C17_ResultNeverMutated ==
    \A i \in 1..Len(returned) :
        /\ HistoryOf(returned[i]) = returned[i].seen_history
        /\ RiskEventsOf(returned[i]) = returned[i].seen_risk_events

\* One sequence of draws continues the other.
Compatible(s, t) ==
    \A i \in 1..Min(Len(s), Len(t)) : s[i] = t[i]

\* Object c was forked from an object of p's origin at a call p has made too.
ForkedAt(c, p) ==
    /\ rngs[c].forked_from = rngs[p].origin
    /\ Len(rngs[c].forked_at) < Len(rngs[p].calls)
    /\ rngs[c].forked_at = SubSeq(rngs[p].calls, 1, Len(rngs[c].forked_at))

\* C18: a fork moves the parent exactly as one draw does and seeds the child
\* with the value of that draw; an object's position is the number of calls
\* made on that object alone, whatever was done with its parent or children;
\* and two objects of the same origin (same seed, forked at the same point of
\* the same call history) produce the same stream.
C18_ForkContract ==
    /\ \A h \in 1..Len(rngs) :
           /\ rngs[h].gen.n = Len(rngs[h].calls)
           /\ Len(rngs[h].outs) = Len(rngs[h].calls)
    /\ \A a, b \in 1..Len(rngs) :
           rngs[a].origin = rngs[b].origin =>
               /\ rngs[a].gen.seed = rngs[b].gen.seed
               /\ Compatible(rngs[a].outs, rngs[b].outs)
               /\ Len(rngs[a].calls) = Len(rngs[b].calls) => rngs[a].gen = rngs[b].gen
    /\ \A p, c \in 1..Len(rngs) :
           ForkedAt(c, p) =>
               rngs[c].gen.seed = rngs[p].outs[Len(rngs[c].forked_at) + 1]

\* Two generators of one seed: one forks after a draw and draws on, the other
\* does the same up to the fork; both children exist and have drawn.
C18_Witness ==
    /\ Len(rngs) = MaxGens
    /\ rngs[1].origin = rngs[2].origin
    /\ rngs[1].calls = <<"draw", "fork", "draw">>
    /\ rngs[2].calls = <<"draw", "fork">>
    /\ rngs[3].origin = rngs[4].origin
    /\ Len(rngs[3].outs) = 2
    /\ Len(rngs[4].outs) = 1

\* The ticks a simulator has forked a stream for so far.
TicksStarted(k) ==
    sim[k].step + (IF sim[k].phase \in {"forked", "buyers", "sellers", "shocked",
                                         "matched"}
                   THEN 1 ELSE 0)

\* C19: every call made on the run-level generator is the fork of a tick, one
\* per tick: its position is the number of ticks started.
C19_RunRngOnlyForked ==
    pc = "sim" => \A k \in Runs : sim[k].rng.n = TicksStarted(k)

\* The draws each step of a tick makes, from the configuration: one per
\* parameter that is not fixed (three per buyer and per seller), one for the
\* shock test and two more when the shock happens, and for n pairs n - 1 per
\* shuffle and one item choice per pair.
DrawsPerAgent == IF cfg.scenario_mode = "fixed" THEN 0 ELSE 3
BuyerDraws == DrawsPerAgent * cfg.buyers_per_step
SellerDraws == DrawsPerAgent * cfg.sellers_per_step
ShockDraws == IF cfg.shock.enabled THEN {1, 3} ELSE {0}
MatchDraws ==
    LET n == Min(cfg.buyers_per_step, cfg.sellers_per_step)
    IN  2 * (n - 1) + n
CatalogDraws == IF cfg.scenario_mode = "fixed" THEN 0 ELSE cfg.market.num_item_types

\* C20: the stream of a tick is at 0 after the fork, after the buyers' draws
\* once the buyers are generated, after the sellers' draws on top of them once
\* the sellers are, then after the shock draws, then after the matching draws,
\* and it stays there while the sessions of the tick run; the run-level
\* generator stays where the fork of the tick left it.
C20_TickStreamOrder ==
    pc = "sim" =>
        \A k \in Runs :
            LET n == sim[k].step_rng.n
                ph == sim[k].phase
            IN  /\ ph = "forked" => n = 0
                /\ ph = "buyers" => n = BuyerDraws
                /\ ph = "sellers" => n = BuyerDraws + SellerDraws
                /\ ph = "shocked" => (n - BuyerDraws - SellerDraws) \in ShockDraws
                /\ ph = "matched" =>
                       (n - BuyerDraws - SellerDraws - MatchDraws) \in ShockDraws
                /\ ph # "unbuilt" => sim[k].rng.n = CatalogDraws + TicksStarted(k)

\* The second session of a tick has run after a shock, every parameter
\* having been drawn.
C20_Witness ==
    /\ pc = "sim"
    /\ cfg.scenario_mode = "distribution"
    /\ sim[1].phase = "matched"
    /\ sim[1].next_pair = 3
    /\ sim[1].step = 1
    /\ sim[1].step_rng.n = BuyerDraws + SellerDraws + 3 + MatchDraws

\* The number returned is the number configured: cents against thousandths
\* for an amount, whole units against thousandths for an integer.
Denotes(out, element, is_int) ==
    IF is_int THEN out * 1000 = element ELSE out * 10 = element

Occurrences(seq, x) == Cardinality({i \in 1..Len(seq) : seq[i] = x})

PairBuyers(k) == [i \in 1..Len(sim[k].pairs) |-> sim[k].pairs[i].buyer]
PairSellers(k) == [i \in 1..Len(sim[k].pairs) |-> sim[k].pairs[i].seller]

\* C24: the matcher returns exactly n = min(#buyers, #sellers) triples; the
\* buyers in them are the first n buyers handed in, each exactly once, and
\* the sellers likewise; every item is an item of the catalog; the agents
\* beyond n appear in no pair; the lists handed in are left in their order.
C24_MatchContract ==
    \A k \in Runs :
        sim[k].phase = "matched"
        => LET inb == sim[k].match_in.buyers
               ins == sim[k].match_in.sellers
               n == Min(Len(inb), Len(ins))
           IN  /\ Len(sim[k].pairs) = n
               /\ \A j \in 1..n : Occurrences(PairBuyers(k), inb[j]) = 1
               /\ \A j \in 1..n : Occurrences(PairSellers(k), ins[j]) = 1
               /\ \A j \in (n + 1)..Len(inb) : Occurrences(PairBuyers(k), inb[j]) = 0
               /\ \A j \in (n + 1)..Len(ins) : Occurrences(PairSellers(k), ins[j]) = 0
               /\ \A i \in 1..n :
                      \E c \in 1..Len(sim[k].catalog) :
                          sim[k].pairs[i].item = sim[k].catalog[c]
               /\ sim[k].buyers = inb
               /\ sim[k].sellers = ins

\* Two buyers and two sellers were matched and the shuffle put the second
\* buyer into the first pair.
C24_Witness ==
    \E k \in Runs :
        /\ sim[k].phase = "matched"
        /\ Len(sim[k].match_in.buyers) = 2
        /\ Len(sim[k].match_in.sellers) = 2
        /\ sim[k].pairs[1].buyer = sim[k].match_in.buyers[2]

\* More buyers than sellers: the second buyer is left out.
C24_Dropped ==
    \E k \in Runs :
        /\ sim[k].phase = "matched"
        /\ Len(sim[k].match_in.buyers) = 2
        /\ Len(sim[k].pairs) = 1

\* C25: with shocks disabled, apply_shocks returns the collections it was
\* given, unchanged, and draws nothing from the generator.
C25_DisabledShocksNoOp ==
    \A k \in Runs :
        (sim[k].phase = "shocked" /\ ~cfg.shock.enabled)
        => /\ sim[k].buyers = sim[k].shock_in.buyers
           /\ sim[k].sellers = sim[k].shock_in.sellers
           /\ sim[k].step_rng = sim[k].shock_in.rng

\* Shocks are disabled and apply_shocks has returned a drawn population.
C25_Witness ==
    \E k \in Runs :
        /\ sim[k].phase = "shocked"
        /\ ~cfg.shock.enabled
        /\ cfg.scenario_mode = "distribution"
        /\ Len(sim[k].buyers) = 2
        /\ Len(sim[k].sellers) = 2

\* The shock of the tick fires: shocks are enabled and the draw is within
\* the probability.
ShockFires(k) ==
    cfg.shock.enabled /\ raw(sim[k].shock_in.rng) <= cfg.shock.shock_probability

Multipliers(lo, hi) == lo..hi

\* C26: apply_shocks keeps the number and order of the agents, their ids,
\* patience, budgets and margins, and leaves the lists handed in as they
\* were; when a shock fires, every buyer value is scaled (and rounded) by
\* one common demand multiplier and every seller cost by one common supply
\* multiplier.
C26_ShockContract ==
    \A k \in Runs :
        sim[k].phase = "shocked"
        => LET inb == sim[k].shock_in.buyers
               ins == sim[k].shock_in.sellers
               outb == sim[k].buyers
               outs == sim[k].sellers
           IN  /\ Len(outb) = Len(inb)
               /\ Len(outs) = Len(ins)
               /\ \A i \in 1..Len(inb) :
                      /\ outb[i].buyer_id = inb[i].buyer_id
                      /\ outb[i].budget = inb[i].budget
                      /\ outb[i].patience = inb[i].patience
               /\ \A i \in 1..Len(ins) :
                      /\ outs[i].seller_id = ins[i].seller_id
                      /\ outs[i].target_margin = ins[i].target_margin
                      /\ outs[i].patience = ins[i].patience
               /\ sim[k].shock_in.left_buyers = inb
               /\ sim[k].shock_in.left_sellers = ins
               /\ ShockFires(k)
                  => /\ \E d \in Multipliers(cfg.shock.demand_multiplier_min,
                                              cfg.shock.demand_multiplier_max) :
                            \A i \in 1..Len(inb) :
                                outb[i].value = RoundDiv(inb[i].value * d, 100)
                     /\ \E u \in Multipliers(cfg.shock.supply_multiplier_min,
                                              cfg.shock.supply_multiplier_max) :
                            \A i \in 1..Len(ins) :
                                outs[i].cost = RoundDiv(ins[i].cost * u, 100)

\* A shock fired on two buyers of different value and changed both values.
C26_Witness ==
    \E k \in Runs :
        /\ sim[k].phase = "shocked"
        /\ ShockFires(k)
        /\ Len(sim[k].buyers) = 2
        /\ Len(sim[k].sellers) = 2
        /\ sim[k].shock_in.buyers[1].value # sim[k].shock_in.buyers[2].value
        /\ sim[k].buyers[1].value # sim[k].shock_in.buyers[1].value
        /\ sim[k].buyers[2].value # sim[k].shock_in.buyers[2].value
        /\ sim[k].sellers[1].cost # sim[k].shock_in.sellers[1].cost

\* Run k was constructed and its run() has returned.
Ran(k) == sim[k].phase = "done" /\ sim[k].run_dir # <<>>

\* C21: sessions share no state: whatever the agent types, the result of
\* every session is the result the same session (same buyer, seller, item,
\* bounds, agent types) yields when no other session has run before it.
C21_SessionsIndependent ==
    \A k \in Runs : sim[k].results = sim[k].alone

\* C27: the run-level result list holds the results tick by tick in pair
\* order: after run() it has steps * min(buyers_per_step, sellers_per_step)
\* entries; time_step counts the ticks from 0 and never decreases along the
\* list; it is the tick index in the result's buyer_id and seller_id; the
\* results of the current tick are those of its pairs, in order.
C27_ResultsTickByTick ==
    \A k \in Runs :
        LET n == Min(cfg.buyers_per_step, cfg.sellers_per_step)
            rs == sim[k].results
        IN  /\ Ran(k) => Len(rs) = cfg.steps * n
            /\ \A i \in 1..Len(rs) :
                   /\ rs[i].time_step = (i - 1) \div n
                   /\ rs[i].buyer_id[2] = rs[i].time_step
                   /\ rs[i].seller_id[2] = rs[i].time_step
            /\ \A i \in 1..(Len(rs) - 1) : rs[i].time_step <= rs[i + 1].time_step
            /\ sim[k].phase = "matched"
               => \A j \in 1..Len(sim[k].tick_results) :
                      /\ rs[sim[k].step * n + j] = sim[k].tick_results[j]
                      /\ rs[sim[k].step * n + j].buyer_id
                            = sim[k].pairs[j].buyer.buyer_id
                      /\ rs[sim[k].step * n + j].seller_id
                            = sim[k].pairs[j].seller.seller_id

\* Two ticks of two pairs each have been run.
C27_Witness ==
    \E k \in Runs :
        /\ Ran(k)
        /\ cfg.steps = 2
        /\ Len(sim[k].results) = 4
        /\ sim[k].results[4].time_step = 1

\* C28: in market mode run() leaves exactly `steps` tick statistics, entry
\* i being that of tick i; in session mode there are none.
C28_TickStatsPerTick ==
    \A k \in Runs :
        /\ (cfg.mode = "market" /\ Ran(k))
           => /\ Len(sim[k].tick_stats) = cfg.steps
              /\ \A i \in 1..Len(sim[k].tick_stats) : sim[k].tick_stats[i].tick = i - 1
        /\ cfg.mode = "session" => sim[k].tick_stats = <<>>

\* The calls a run has to have made, from result i on: the session, then
\* record_outcome with its result on the buyer's agent and on the seller's,
\* for the sides whose agent has the method.
RECURSIVE ExpectedCalls(_, _)
ExpectedCalls(k, i) ==
    IF i > Len(sim[k].results) THEN <<>>
    ELSE <<Event("run", "session", i, sim[k].results[i])>>
         \o (IF cfg.buyer_agent_type = "memory"
             THEN <<Event("record_outcome", BUYER, i, sim[k].results[i])>> ELSE <<>>)
         \o (IF cfg.seller_agent_type = "memory"
             THEN <<Event("record_outcome", SELLER, i, sim[k].results[i])>> ELSE <<>>)
         \o ExpectedCalls(k, i + 1)

\* C29: after the session of a pair and before the next session,
\* record_outcome is called exactly once with that session's result on each
\* side's agent that has the method; for an agent without it nothing is
\* called and the run goes on.
C29_OutcomeRecordedOnce ==
    \A k \in Runs : sim[k].events = ExpectedCalls(k, 1)

\* A memory agent sells to a rule-based buyer; two sessions have been run.
C29_Witness ==
    \E k \in Runs :
        /\ cfg.seller_agent_type = "memory"
        /\ cfg.buyer_agent_type = "rule_based"
        /\ Len(sim[k].results) >= 2
        /\ Len(sim[k].events) = 2 * Len(sim[k].results)
        /\ Len(sim[k].seller_memory.memories) = Len(sim[k].results)

\* C30: on an empty result set compute_tick_stats and compute_metrics
\* return, without failing, metrics whose counts and ratios are all 0; on a
\* non-empty set num_sessions (total_negotiations) is the number of results,
\* deals_made the number of results with deal_made, and
\* 0 <= deals_made <= num_sessions.
C30_AggregatesOnAnySet ==
    LET rs == probe.results
        deals == Cardinality({i \in 1..Len(rs) : rs[i].deal_made})
    IN  /\ probe.stats # <<>>
           => LET s == probe.stats[1]
              IN  /\ s.tick = probe.tick
                  /\ s.num_sessions = Len(rs)
                  /\ s.deals_made = deals
                  /\ 0 <= s.deals_made /\ s.deals_made <= s.num_sessions
                  /\ rs = <<>> => (s.fail_rate = 0 /\ s.liquidity = 0)
        /\ probe.metrics # <<>>
           => LET m == probe.metrics[1]
              IN  /\ m.total_negotiations = Len(rs)
                  /\ m.deals_made = deals
                  /\ 0 <= m.deals_made /\ m.deals_made <= m.total_negotiations
                  /\ rs = <<>>
                     => /\ m.deal_success_rate = 0 /\ m.deadlock_rate = 0
                        /\ m.timeouts = 0 /\ m.total_risk_events = 0
                        /\ m.budget_violation_attempts = 0
                        /\ m.cost_violation_attempts = 0

\* Both aggregators have returned for the empty result set.
C30_Witness ==
    /\ probe.results = <<>>
    /\ probe.stats # <<>>
    /\ probe.metrics # <<>>

\* Both have returned for a set with a deal and a failure.
C30_Mixed ==
    /\ Len(probe.results) = 3
    /\ probe.stats # <<>>
    /\ probe.metrics # <<>>
    /\ probe.metrics[1].deals_made = 1
    /\ probe.metrics[1].timeouts = 1

\* What the determinism tests compare: per session, in pair order, and per tick.
Outcomes(k) ==
    [i \in 1..Len(sim[k].results) |->
        <<sim[k].results[i].deal_made, sim[k].results[i].deal_price,
          sim[k].results[i].rounds_taken>>]
TickDeals(k) ==
    [i \in 1..Len(sim[k].tick_stats) |-> sim[k].tick_stats[i].deals_made]
DealsOfTick(k, t) ==
    Cardinality({i \in 1..Len(sim[k].results) :
                    sim[k].results[i].time_step = t /\ sim[k].results[i].deal_made})
BothDone == pc = "sim" /\ \A k \in Runs : sim[k].phase = "done"

\* C5: two simulators built with the same seed and configuration (rule-based
\* agents) produce the same (deal_made, deal_price, rounds_taken) per session,
\* in pair order, and the same deals_made per tick, however their steps
\* interleave and whatever the clock shows.
C5_SameSeedSameOutcomes ==
    BothDone =>
        /\ Outcomes(1) = Outcomes(2)
        /\ TickDeals(1) = TickDeals(2)
        /\ \A t \in 0..(cfg.steps - 1) : DealsOfTick(1, t) = DealsOfTick(2, t)

\* Two finished market-mode runs constructed at different times, with deals
\* and failures among their sessions.
C5_Witness ==
    /\ BothDone
    /\ cfg.mode = "market"
    /\ sim[1].run_dir # sim[2].run_dir
    /\ \E i, j \in 1..Len(sim[1].results) :
           sim[1].results[i].deal_made /\ ~sim[1].results[j].deal_made
    /\ Len(sim[1].tick_stats) = cfg.steps


\* An action object every field of which is of its declared kind, an offer
\* or a counter-offer carrying a price.
StructurallyValid(a) ==
    /\ a.action \in ActionType
    /\ a.offer_price = None \/ a.offer_price \in Nat
    /\ a.action \in {OFFER, COUNTER} => a.offer_price # None

\* C31: decide never raises to its caller: for every agent type the
\* simulator creates it returns a structurally valid action, also when the
\* model's text cannot be parsed and when every request to the model fails.
C31_DecideNeverRaises ==
    (pc = "decide" /\ probe.outcome # <<>>)
        => /\ ~probe.outcome[1].raised
           /\ StructurallyValid(probe.outcome[1].action)


\* What the specification calls a configuration error.
ConfigError(c) ==
    \/ c.negotiation.min_price > c.negotiation.max_price
    \/ c.steps <= 0
    \/ c.buyers_per_step <= 0
    \/ c.sellers_per_step <= 0
    \/ c.negotiation.max_rounds <= 0
    \/ c.market.num_item_types <= 0

\* C32: a configuration error is found before the run starts: with such a
\* configuration no tick is executed, no session is run, and the run does
\* not fail in the middle.
C32_ConfigErrorsRefused ==
    \A k \in Runs :
        ConfigError(cfg)
            => /\ sim[k].step = 0
               /\ sim[k].phase \notin {"forked", "buyers", "sellers", "shocked",
                                        "matched", "crashed"}
               /\ sim[k].results = <<>>


\* The most a rule-based buyer pays, and the margin a rule-based seller
\* works with.
BuyerCap == Min(buyer.value, IF Truthy(buyer.budget) THEN buyer.budget ELSE buyer.value)
SellerMargin == IF Truthy(seller.target_margin) THEN seller.target_margin ELSE 1500

InBounds(p) == min_price <= p /\ p <= max_price

C37_RuleAgentsNeverTimeout ==
    /\ (pc = "done" /\ max_rounds >= 2)
           => /\ result.termination_reason \in {ACCEPTED, REJECTED}
              /\ (Len(transcript) = max_rounds
                     => Last(decided).action \in {ACCEPT, REJECT})
    /\ (pc = "done" /\ result.termination_reason = TIMEOUT) => max_rounds <= 1

\* A session of five rounds that went to its last round, where the agent
\* refused and the session ended REJECTED.
C37_Witness ==
    /\ pc = "done"
    /\ max_rounds = MaxRuleRounds
    /\ Len(transcript) = max_rounds
    /\ Last(decided).action = REJECT
    /\ result.termination_reason = REJECTED


\* A REJECT the judge put in the place of a refused action.
Substituted(turn) ==
    /\ turn.action.action = REJECT
    /\ turn.action.message_public = CANNOT_CONTINUE_MSG

\* C34: a session records at most one risk event, and records one exactly
\* when its final turn is a REJECT substituted by the judge; a session with
\* a risk event ends REJECTED, an ACCEPTED or TIMEOUT result carries none.
C34_OneRiskEventAtTheEnd ==
    /\ Len(risk_events) <= 1
    /\ ~is_complete => risk_events = <<>>
    /\ is_complete =>
           /\ risk_events # <<>> <=>
                  (transcript # <<>> /\ Substituted(Last(transcript)))
           /\ risk_events # <<>> => Reason = REJECTED
           /\ Reason \in {ACCEPTED, TIMEOUT} => Last(returned).seen_risk_events = <<>>

\* A session refused by the judge in its third round.
C34_Witness ==
    /\ is_complete
    /\ Len(risk_events) = 1
    /\ Len(transcript) = 3
    /\ Substituted(Last(transcript))
    /\ Reason = REJECTED

\* C35: no deal is closed in the opening round: the first turn of a
\* transcript is an OFFER or a REJECT substituted by the judge, an ACCEPTED
\* result has rounds_taken >= 2, and a REJECTED result with rounds_taken = 1
\* carries a risk event for round 0.
C35_NoDealInOpeningRound ==
    /\ transcript # <<>> =>
           \/ transcript[1].action.action = OFFER
           \/ Substituted(transcript[1])
    /\ (is_complete /\ Reason = ACCEPTED) => result.rounds_taken >= 2
    /\ (is_complete /\ Reason = REJECTED /\ result.rounds_taken = 1)
           => /\ risk_events # <<>>
              /\ risk_events[1].round = 0

\* The agent answered ACCEPT in the opening round; it was turned into an
\* opening offer, which the judge refused.
C35_Witness ==
    /\ is_complete
    /\ decided[1].action = ACCEPT
    /\ Reason = REJECTED
    /\ result.rounds_taken = 1
    /\ risk_events[1].round = 0
    /\ risk_events[1].attempted_action = OFFER

\* C38: in every result deal_made holds exactly when the termination reason
\* is ACCEPTED and exactly when deal_price is not None; a result without a
\* deal has both surpluses 0.
C38_DealIffAcceptedIffPriced ==
    is_complete =>
        /\ result.deal_made <=> Reason = ACCEPTED
        /\ result.deal_made <=> result.deal_price # None
        /\ ~result.deal_made => (result.buyer_surplus = 0 /\ result.seller_surplus = 0)

\* A deal with a price and a gain for the buyer.
C38_Witness ==
    /\ is_complete
    /\ result.deal_made
    /\ Reason = ACCEPTED
    /\ result.deal_price # None
    /\ result.buyer_surplus > 0


\* C39: draw leaves the generator where it was in fixed-scalar mode, in
\* single-element-list mode and in cycle mode, and takes exactly one draw
\* from it in random-selection mode over two or more values and in
\* distribution mode; the cycle index advances, by one, only on a cycle-mode
\* draw over two or more values, and nothing else of the source changes.
C39_DrawFrameEffect ==
    [][(pc = "source" /\ Len(probe'.outs) = Len(probe.outs) + 1)
          => LET src == probe.src
                 several == src.is_fixed /\ Len(src.values) >= 2
                 consuming == ~src.is_fixed \/ (several /\ src.selection = "random")
                 cycling == several /\ src.selection = "cycle"
             IN  /\ probe'.rng = IF consuming THEN advance(probe.rng) ELSE probe.rng
                 /\ probe'.src = [src EXCEPT !.cycle_idx =
                                      IF cycling THEN @ + 1 ELSE @]
                 /\ ~Last(probe'.scalar_moved)
                 /\ probe'.scalar = probe.scalar]_vars

\* Three random selections from a list of two values: each took one draw
\* and the cycle index stayed at 0.
C39_Witness ==
    /\ pc = "source"
    /\ probe.src.is_fixed
    /\ Len(probe.src.values) = 2
    /\ probe.src.selection = "random"
    /\ Len(probe.outs) = 3
    /\ probe.rng.n = 3 + probe.skips
    /\ probe.src.cycle_idx = 0


\* What the claim compares of a transcript: round, role, action type, price.
Turns(history) ==
    [i \in 1..Len(history) |->
        <<history[i].round_number, history[i].agent_role,
          history[i].action.action, history[i].action.offer_price>>]

\* C36: NegotiationSession.run and run_negotiation, given the same buyer,
\* seller, bounds, max_rounds and agent decisions, yield the same
\* termination reason, deal_made, deal price, rounds_taken and surpluses,
\* the same sequence of turns and the same risk events; run_negotiation
\* asks for no decision the session did not ask for.
C36_SessionEqualsLegacy ==
    (pc = "done" /\ probe.used)
        => /\ ~probe.out.starved
           /\ probe.out.result = result
           /\ Turns(probe.out.history) = Turns(transcript)
           /\ probe.out.risk_events = risk_events

\* Both ended REJECTED in the third round on the same refused action.
C36_Witness ==
    /\ pc = "done"
    /\ probe.used
    /\ probe.out.result.termination_reason = REJECTED
    /\ probe.out.result.rounds_taken = 3
    /\ Len(probe.out.risk_events) = 1
    /\ Len(probe.out.history) = 3

=============================================================================
